---- MODULE Spec2Model ----
(***************************************************************************)
(* Verification model of daedalos.                                         *)
(*                                                                         *)
(* Part L: the loop engine (tools/loop/lib/state.py): Loop.run and its     *)
(*         control methods pause/resume/cancel/inject_context, the state   *)
(*         file written by LoopState.save and read by LoopState.load.      *)
(* Part R: the request/response exchange of a pool daemon with one child   *)
(*         (mcphub/daemon.py _send_mcp_request, lsppool _send_request).    *)
(* Part H: the tool-hub supervisor (mcphub/daemon.py): the server map and  *)
(*         the start/stop/restart/health-check tasks.                      *)
(*                                                                         *)
(* Each part has its own specification (SpecLoop, SpecRpc, SpecHub); the   *)
(* variables of the other parts stay at their initial values.              *)
(***************************************************************************)
EXTENDS Integers, Sequences, FiniteSets, TLC

\* ------------------------------------------------------------------ bounds
\* Largest max_iterations a loop is constructed with.
MaxIter == 2
\* Number of inject_context calls explored.
MaxInject == 1
\* Requests sent to the child in part R.
MaxReq == 3
\* Caller tasks of part R (client connections and the health checker).
NumCallers == 2
\* Child processes the hub spawns in part H.
MaxProcs == 2
\* Client connections handled at once in part H.
NumClients == 2
\* Largest health_failures explored in part H.
MaxFailures == 4
\* Client connections handled at once in part P.
NumPoolClients == 2
\* Language-server processes the pool spawns in part P.
MaxSpawn == 2
\* Largest max_servers the pool is configured with.
MaxServers == 2
\* Largest resident size psutil reports for one server, in the unit of
\* memory_estimate_mb / 2.
MaxRss == 2
\* Ticks of the clock in parts P and K.
MaxTime == 2

\* Calls of check_gate explored in part K.
MaxCalls == 2
\* File events and restore commands explored in part U.
MaxEvents == 4
\* Ticks of the clock in part U.
MaxClock == 6

\* MCPHubDaemon.MAX_HEALTH_FAILURES and MAX_RESTART_ATTEMPTS.
MAX_HEALTH_FAILURES == 3
MAX_RESTART_ATTEMPTS == 3

VARIABLES
    \* ---- Part L
    state,            \* Loop.state: the in-memory LoopState
    disk,             \* the state file <state_dir>/<id>.json, or NoFile
    max_iterations,   \* Loop.max_iterations
    lpc,              \* where Loop.run stands
    iteration_num,    \* _run_iteration's local iteration_num
    checkpoint_id,    \* _run_iteration's local checkpoint_id: none | ok | failed
    timed_out,        \* _run_iteration's agent_result.timed_out
    success,          \* _run_iteration's promise_result.success
    ret,              \* what the last call of run returned
    lh,               \* history of the current run (observation only)
    \* ---- Part R
    request_id,       \* ServerProcess.request_id
    childPending,     \* ids the child has read from stdin and not answered
    stdout,           \* responses in the child's stdout StreamReader, unread
    waiter,           \* the task registered as the StreamReader's waiter, or 0
    tpc,              \* where each caller stands in _send_mcp_request
    treq,             \* the id of each caller's request
    tres,             \* what each caller's request returned (0: None)
    abandoned,        \* ids whose request timed out or failed (observation)
    tlate,            \* abandoned, as it was when each caller sent (observation)
    \* ---- Part H
    servers,          \* MCPHubDaemon.servers: name -> ServerProcess (0: absent)
    srv,              \* the ServerProcess objects, by the process they wrap
    proc,             \* the child processes: none | alive | exited
    nprocs,           \* processes spawned so far
    stderr_tasks,     \* MCPHubDaemon._stderr_tasks: name -> collector (0: absent)
    collecting,       \* the stderr collector tasks that are still running
    task,             \* the daemon's tasks: client connections and the health loop
    hh,               \* history of part H (observation only)
    \* ---- Part P
    pconfig,          \* the pool's Config: max_servers, memory_limit_mb
    pool,             \* ServerManager.servers: key -> ServerState
    plock,            \* the task holding ServerManager._lock, or 0
    pspawned,         \* language-server processes spawned so far
    pnow,             \* time.time(), in ticks
    ptask,            \* the pool daemon's tasks: client connections, idle loop
    ph,               \* history of part P (observation only)
    \* ---- Part T
    known,            \* MCPHubDaemon.servers as _route_tool_call reads it: the
                      \* records in the order of the dict
    call,             \* the call_tool request at hand
    rtpc,             \* where _route_tool_call stands
    sent,             \* the server the tools/call went to ("": none)
    reply,            \* what _route_tool_call returned
    \* ---- Part G
    user_file,        \* the user-global supervision.yaml, or NoFile
    project_file,     \* <project>/.daedalos/supervision.yaml, or NoFile
    config,           \* the SupervisionConfig at hand in load_project_config, or NoConfig
    global_config,    \* what load_config returned (observation only)
    cfpc,             \* where load_project_config stands
    \* ---- Part K
    gate_config,      \* the SupervisionConfig check_gate is called with
    isatty,           \* sys.stdin.isatty()
    now,              \* time.time(), in ticks
    audit_log,        \* the rows of the gates-<date>.jsonl files, in the order written
    gcall,            \* the check_gate call at hand: gate, context path, interactive
    gate_action,      \* check_gate's local gate_action
    timestamp,        \* request.timestamp
    result,           \* what check_gate returned, or NoResult
    gkpc,             \* where check_gate stands
    gh,               \* history of part K (observation only)
    \* ---- Part U
    ufile,            \* the bytes of the watched file, or Absent
    backups,          \* the files of backup_dir: name and bytes
    entries,          \* the rows of the entries table, in the order added
    pending_changes,  \* FileChangeHandler.pending_changes of the path: a time, or NoTime
    timers,           \* the threading.Timer threads not yet run: when they fire, with what event type
    uclock,           \* time.time(), in ticks
    uh,               \* history of part U (observation only)
    \* ---- Part B
    selection_mode,   \* run_best_of_n's selection_mode
    working_dir,      \* the items of the main working directory
    branch_dirs,      \* the items of each branch's work directory, or Removed
    results,          \* the BranchResults, in the order they were appended
    best,             \* what run_best_of_n returned
    bpc,              \* where run_best_of_n stands
    \* ---- Part W
    subagents,        \* WorkspaceState.subagents: id to record, or NoRecord
    total_subagent_iterations,\* WorkspaceState.total_subagent_iterations
    sub,              \* each Subagent.run thread: pc, iterations, the counter it read
    \* ---- Part V
    pv_command,       \* what the promise command does once run
    pv_timeout,       \* verify_promise's timeout
    pv_elapsed,       \* seconds the command has run
    pv_outcome,       \* how subprocess.run ended
    pv_result,        \* what verify_promise returned
    pv_pc,            \* where verify_promise stands
    \* ---- Part C
    ck_backend,       \* the CheckpointBackend in use
    ck_dir,           \* the working directory: its uncommitted changes (git), its content (btrfs, none)
    ck_stash,         \* git's stash, the latest entry first
    ck_points,        \* what each checkpoint id holds, or NoPoint
    ck_ret,           \* the last call of the backend and what it gave
    ck_before         \* ck_dir when that call began

loopVars == <<state, disk, max_iterations, lpc, iteration_num, checkpoint_id,
              timed_out, success, ret, lh>>
rpcVars == <<request_id, childPending, stdout, waiter, tpc, treq, tres,
             abandoned, tlate>>

hubVars == <<servers, srv, proc, nprocs, stderr_tasks, collecting, task, hh>>

poolVars == <<pconfig, pool, plock, pspawned, pnow, ptask, ph>>

routeVars == <<known, call, rtpc, sent, reply>>

configVars == <<user_file, project_file, config, global_config, cfpc>>

gateVars == <<gate_config, isatty, now, audit_log, gcall, gate_action, timestamp, result, gkpc, gh>>

undoVars == <<ufile, backups, entries, pending_changes, timers, uclock, uh>>

bestVars == <<selection_mode, working_dir, branch_dirs, results, best, bpc>>

workVars == <<subagents, total_subagent_iterations, sub>>

promiseVars == <<pv_command, pv_timeout, pv_elapsed, pv_outcome, pv_result, pv_pc>>

checkpointVars == <<ck_backend, ck_dir, ck_stash, ck_points, ck_ret, ck_before>>

vars == <<loopVars, rpcVars, hubVars, poolVars, routeVars, configVars, gateVars, undoVars, bestVars, workVars, promiseVars, checkpointVars>>

\* What a step of one part leaves alone: the other parts.
LoopFrame == UNCHANGED <<rpcVars, hubVars, poolVars, routeVars, configVars, gateVars, undoVars, bestVars, workVars, promiseVars, checkpointVars>>
RpcFrame == UNCHANGED <<loopVars, hubVars, poolVars, routeVars, configVars, gateVars, undoVars, bestVars, workVars, promiseVars, checkpointVars>>
HubFrame == UNCHANGED <<loopVars, rpcVars, poolVars, routeVars, configVars, gateVars, undoVars, bestVars, workVars, promiseVars, checkpointVars>>
PoolFrame == UNCHANGED <<loopVars, rpcVars, hubVars, routeVars, configVars, gateVars, undoVars, bestVars, workVars, promiseVars, checkpointVars>>
RouteFrame == UNCHANGED <<loopVars, rpcVars, hubVars, poolVars, configVars, gateVars, undoVars, bestVars, workVars, promiseVars, checkpointVars>>
ConfigFrame == UNCHANGED <<loopVars, rpcVars, hubVars, poolVars, routeVars, gateVars, undoVars, bestVars, workVars, promiseVars, checkpointVars>>
GateFrame == UNCHANGED <<loopVars, rpcVars, hubVars, poolVars, routeVars, configVars, undoVars, bestVars, workVars, promiseVars, checkpointVars>>
UndoFrame == UNCHANGED <<loopVars, rpcVars, hubVars, poolVars, routeVars, configVars, gateVars, bestVars, workVars, promiseVars, checkpointVars>>
BestFrame == UNCHANGED <<loopVars, rpcVars, hubVars, poolVars, routeVars, configVars, gateVars, undoVars, workVars, promiseVars, checkpointVars>>
WorkFrame == UNCHANGED <<loopVars, rpcVars, hubVars, poolVars, routeVars, configVars, gateVars, undoVars, bestVars, promiseVars, checkpointVars>>
PromiseFrame == UNCHANGED <<loopVars, rpcVars, hubVars, poolVars, routeVars, configVars, gateVars, undoVars, bestVars, workVars, checkpointVars>>
CheckpointFrame == UNCHANGED <<loopVars, rpcVars, hubVars, poolVars, routeVars, configVars, gateVars, undoVars, bestVars, workVars, promiseVars>>

\* ================================================================ Part L
NoFile == [status |-> "nofile", current_iteration |-> 0, iterations |-> <<>>,
           error_message |-> [kind |-> "none", n |-> 0],
           initial_checkpoint |-> FALSE, injected_context |-> 0]

LoopStatus == {"pending", "running", "paused", "completed", "failed", "cancelled"}
Terminal == {"completed", "failed", "cancelled"}

\* LoopState as built by Loop.__init__.
NewLoopState ==
    [status |-> "pending", current_iteration |-> 0, iterations |-> <<>>,
     error_message |-> [kind |-> "none", n |-> 0],
     initial_checkpoint |-> FALSE, injected_context |-> 0]

\* The observations a run starts with.
NewHistory(st, resumed) ==
    [agent |-> 0,            \* agent.run calls of this run
     ckpt |-> 0,             \* checkpoint.create calls of this run
     promisePassed |-> FALSE,\* some promise evaluation of this run passed
     pass0 |-> FALSE,        \* the promise passed when run started
     passIter |-> 0,         \* the iteration whose promise evaluation passed
     agentAtPass |-> 0,      \* agent.run calls made when that evaluation passed
     initCkpt |-> "none",    \* none | ok | failed
     ctl |-> FALSE,          \* pause/cancel/external status write since construction
     cancelIter |-> FALSE,   \* cancel() was called inside an iteration of this run
                             \* (and pause() was not called after it)
     extPaused |-> FALSE,    \* another actor wrote paused while run was in its
                             \* while loop with iterations left, and no control
                             \* method or other actor has written since
     resumed |-> resumed,    \* the loop was rebuilt by resume_from_state
     \* The next four follow a loop whose agent and promise are deterministic.
     ctlRun |-> FALSE,       \* pause/cancel/external status write since the loop
                             \* was rebuilt by resume_from_state
     allRecorded |-> FALSE,  \* the state the loop was rebuilt from had a record for
                             \* every agent run the working directory has seen
     det |-> FALSE,          \* every promise evaluation so far passed exactly when
                             \* the agent had run passAt times or more
     passAt |-> 0,           \* the number of agent runs that makes the promise pass
     world |-> 0,            \* agent runs the working directory has seen, up to
                             \* MaxIter + 1
     startLen |-> Len(st.iterations),
     retStatus |-> "none"]   \* state.status at the moment run returned

\* The observations the next call of run starts with: what is known about
\* the loop since its construction is kept.
NextHistory(h, st) ==
    [NewHistory(st, h.resumed) EXCEPT !.ctl = h.ctl, !.ctlRun = h.ctlRun,
        !.allRecorded = h.allRecorded, !.det = h.det, !.passAt = h.passAt,
        !.world = h.world]

\* A promise evaluation gave ok: it is the one of a deterministic promise
\* when it passed exactly because the agent had run passAt times.
Observe(h, ok) ==
    IF h.det /\ (ok <=> h.world >= h.passAt)
    THEN h
    ELSE [h EXCEPT !.det = FALSE, !.passAt = 0, !.world = 0]

\* The agent has run once more in the working directory.
AgentRan(h) ==
    IF h.det /\ h.world <= MaxIter THEN [h EXCEPT !.world = @ + 1] ELSE h

\* LoopState.save: the whole state replaces the file.
save(st) == st

\* Loop._set_status, on the in-memory state; the caller saves the result.
set_status(st, s) == [st EXCEPT !.status = s]

LoopIdle ==
    /\ max_iterations = 0
    /\ state = NewLoopState
    /\ disk = NoFile
    /\ lpc = "idle"
    /\ iteration_num = 0
    /\ checkpoint_id = "none"
    /\ timed_out = FALSE
    /\ success = FALSE
    /\ ret = "none"
    /\ lh = NewHistory(NewLoopState, FALSE)

LoopStart ==
    /\ max_iterations \in 0..MaxIter
    /\ state = NewLoopState
    /\ disk = NoFile
    /\ lpc = "idle"
    /\ iteration_num = 0
    /\ checkpoint_id = "none"
    /\ timed_out = FALSE
    /\ success = FALSE
    /\ ret = "none"
    /\ lh = NewHistory(NewLoopState, FALSE)

\* A new loop whose agent and promise are deterministic: the promise passes
\* once the agent has run passAt times.
LoopStartDeterministic ==
    /\ max_iterations \in 0..MaxIter
    /\ state = NewLoopState
    /\ disk = NoFile
    /\ lpc = "idle"
    /\ iteration_num = 0
    /\ checkpoint_id = "none"
    /\ timed_out = FALSE
    /\ success = FALSE
    /\ ret = "none"
    /\ \E n \in 0..(MaxIter + 1) :
         lh = [NewHistory(NewLoopState, FALSE) EXCEPT !.det = TRUE, !.passAt = n]

Running == lpc \notin {"idle", "done"}

\* run() returns r, leaving the state st; h is the history so far.
Return(st, r, h) ==
    /\ state' = st
    /\ ret' = r
    /\ lpc' = "done"
    /\ lh' = [h EXCEPT !.retStatus = st.status]

\* run, line 325: the condition of the while loop.
LoopCondition_OffByOne == state.current_iteration <= max_iterations
LoopCondition == state.current_iteration < max_iterations

\* RunVerify without the early return of lines 308-310.
RunVerify_NoEarlyReturn ==
    /\ lpc \in {"idle", "done"}
    /\ \E ok \in BOOLEAN :
         /\ lpc' = "ckpt"
         /\ lh' = [Observe(NextHistory(lh, state), ok) EXCEPT
                       !.promisePassed = ok, !.pass0 = ok]
         /\ UNCHANGED <<state, disk, ret>>
    /\ UNCHANGED <<max_iterations, iteration_num, checkpoint_id, timed_out, success>>
    /\ LoopFrame

\* run, lines 307-310: the promise is evaluated first.
RunVerify ==
    /\ lpc \in {"idle", "done"}
    /\ \E ok \in BOOLEAN :
         LET h0 == Observe(NextHistory(lh, state), ok) IN
         IF ok
         THEN /\ Return(set_status(state, "completed"), "True",
                         [h0 EXCEPT !.promisePassed = TRUE, !.pass0 = TRUE])
              /\ disk' = save(set_status(state, "completed"))
         ELSE /\ lpc' = "ckpt"
              /\ lh' = h0
              /\ UNCHANGED <<state, disk, ret>>
    /\ UNCHANGED <<max_iterations, iteration_num, checkpoint_id, timed_out, success>>
    /\ LoopFrame

\* run, lines 312-321: the initial checkpoint.
RunInitialCheckpoint ==
    /\ lpc = "ckpt"
    /\ \E ok \in BOOLEAN :
         IF ok
         THEN /\ state' = [state EXCEPT !.initial_checkpoint = TRUE]
              /\ lpc' = "setrunning"
              /\ lh' = [lh EXCEPT !.ckpt = @ + 1, !.initCkpt = "ok"]
              /\ UNCHANGED <<disk, ret>>
         ELSE LET st == set_status([state EXCEPT !.error_message =
                                       [kind |-> "initial_checkpoint", n |-> 0]],
                                   "failed") IN
              /\ Return(st, "False",
                        [lh EXCEPT !.ckpt = @ + 1, !.initCkpt = "failed"])
              /\ disk' = save(st)
    /\ UNCHANGED <<max_iterations, iteration_num, checkpoint_id, timed_out, success>>
    /\ LoopFrame

\* run, line 323.
RunSetRunning ==
    /\ lpc = "setrunning"
    /\ state' = set_status(state, "running")
    /\ disk' = save(state')
    /\ lpc' = "loop"
    /\ UNCHANGED <<max_iterations, iteration_num, checkpoint_id, timed_out, success, ret, lh>>
    /\ LoopFrame

\* run, lines 327-334: paused; sleep a tick, reload the state file (a failed
\* load is swallowed and the old state kept).
RunPausedTick ==
    /\ lpc = "loop"
    /\ LoopCondition
    /\ state.status = "paused"
    /\ \/ disk # NoFile /\ state' = disk
       \/ UNCHANGED state
    /\ UNCHANGED <<disk, max_iterations, lpc, iteration_num, checkpoint_id, timed_out, success, ret, lh>>
    /\ LoopFrame

\* run, lines 336-337.
RunCancelled ==
    /\ lpc = "loop"
    /\ LoopCondition
    /\ state.status = "cancelled"
    /\ Return(state, "False", lh)
    /\ UNCHANGED <<disk, max_iterations, iteration_num, checkpoint_id, timed_out, success>>
    /\ LoopFrame

\* IterBegin with a checkpoint error ending the run as the initial one does.
IterBegin_CheckpointFatal ==
    /\ lpc = "loop"
    /\ LoopCondition
    /\ state.status \notin {"paused", "cancelled"}
    /\ \E ok \in BOOLEAN :
         LET st == [state EXCEPT !.current_iteration = @ + 1]
             h == [lh EXCEPT !.ckpt = @ + 1] IN
         IF ok
         THEN /\ state' = st
              /\ iteration_num' = state.current_iteration + 1
              /\ checkpoint_id' = "ok"
              /\ lpc' = "agent"
              /\ lh' = h
              /\ UNCHANGED <<disk, ret>>
         ELSE /\ Return(set_status(st, "failed"), "False", h)
              /\ disk' = save(set_status(st, "failed"))
              /\ UNCHANGED <<iteration_num, checkpoint_id>>
    /\ UNCHANGED <<max_iterations, timed_out, success>>
    /\ LoopFrame

\* run, line 340 and _run_iteration, lines 357-368: the iteration starts;
\* its checkpoint is created, or checkpoint.create raises and the iteration
\* goes on with the id failed_<n>.
IterBegin ==
    /\ lpc = "loop"
    /\ LoopCondition
    /\ state.status \notin {"paused", "cancelled"}
    /\ state' = [state EXCEPT !.current_iteration = @ + 1]
    /\ iteration_num' = state.current_iteration + 1
    /\ lpc' = "agent"
    /\ checkpoint_id' \in {"ok", "failed"}
    /\ lh' = [lh EXCEPT !.ckpt = @ + 1]
    /\ UNCHANGED <<disk, max_iterations, timed_out, success, ret>>
    /\ LoopFrame

\* _run_iteration, lines 385-393: the agent runs (and may time out: its
\* result is only recorded).
IterAgent ==
    /\ lpc = "agent"
    /\ lpc' = "promise"
    /\ timed_out' \in BOOLEAN
    /\ lh' = [AgentRan(lh) EXCEPT !.agent = @ + 1]
    /\ UNCHANGED <<state, disk, max_iterations, iteration_num, checkpoint_id, success, ret>>
    /\ LoopFrame

\* _run_iteration, lines 396-414: the promise is evaluated, the record is
\* appended and the state saved.
IterPromise ==
    /\ lpc = "promise"
    /\ \E ok \in BOOLEAN :
         /\ state' = [state EXCEPT !.iterations =
                         Append(@, [number |-> iteration_num,
                                    checkpoint_id |-> checkpoint_id,
                                    agent_error |-> IF timed_out THEN "timed out"
                                                                 ELSE "",
                                    promise_result |-> ok])]
         /\ success' = ok
         /\ lh' = [Observe(lh, ok) EXCEPT !.promisePassed = @ \/ ok,
                             !.passIter = IF ok THEN iteration_num ELSE @,
                             !.agentAtPass = IF ok THEN lh.agent ELSE @]
    /\ disk' = save(state')
    /\ lpc' = "callback"
    /\ checkpoint_id' = "none"
    /\ timed_out' = FALSE
    /\ UNCHANGED <<max_iterations, iteration_num, ret>>
    /\ LoopFrame

\* IterEnd with run ignoring what _run_iteration returned.
IterEnd_IgnoresSuccess ==
    /\ lpc = "callback"
    /\ lpc' = "loop"
    /\ UNCHANGED <<state, disk, ret, lh, max_iterations, iteration_num, checkpoint_id, timed_out, success>>
    /\ LoopFrame

\* _run_iteration, lines 417-420 and run, lines 341-343: on_iteration is
\* called, the result goes back to run.
IterEnd ==
    /\ lpc = "callback"
    /\ IF success
       THEN /\ Return(set_status(state, "completed"), "True", lh)
            /\ disk' = save(set_status(state, "completed"))
       ELSE /\ lpc' = "loop"
            /\ UNCHANGED <<state, disk, ret, lh>>
    /\ UNCHANGED <<max_iterations, iteration_num, checkpoint_id, timed_out, success>>
    /\ LoopFrame

\* run, lines 345-348.
RunMaxReached ==
    /\ lpc = "loop"
    /\ ~LoopCondition
    /\ LET st == set_status([state EXCEPT !.error_message =
                                [kind |-> "max_iterations", n |-> max_iterations]],
                            "failed") IN
       /\ Return(st, "False", lh)
       /\ disk' = save(st)
    /\ UNCHANGED <<max_iterations, iteration_num, checkpoint_id, timed_out, success>>
    /\ LoopFrame

\* ---- the control methods, called from a callback or another thread
InIteration == lpc \in {"agent", "promise", "callback"}
\* run is inside its while loop.
InLoop == lpc = "loop" \/ InIteration

pause ==
    /\ state' = set_status(state, "paused")
    /\ disk' = save(state')
    /\ lh' = [lh EXCEPT !.ctl = TRUE, !.ctlRun = lh.det, !.extPaused = FALSE,
                        !.cancelIter = FALSE]
    /\ UNCHANGED <<max_iterations, lpc, iteration_num, checkpoint_id, timed_out, success, ret>>
    /\ LoopFrame

resume ==
    /\ IF state.status = "paused"
       THEN /\ state' = set_status(state, "running")
            /\ disk' = save(state')
       ELSE UNCHANGED <<state, disk>>
    /\ lh' = [lh EXCEPT !.extPaused = FALSE]
    /\ UNCHANGED <<max_iterations, lpc, iteration_num, checkpoint_id, timed_out, success, ret>>
    /\ LoopFrame

cancel ==
    /\ state' = set_status(state, "cancelled")
    /\ disk' = save(state')
    /\ lh' = [lh EXCEPT !.ctl = TRUE, !.ctlRun = lh.det, !.extPaused = FALSE,
                        !.cancelIter = @ \/ InIteration]
    /\ UNCHANGED <<max_iterations, lpc, iteration_num, checkpoint_id, timed_out, success, ret>>
    /\ LoopFrame

inject_context ==
    /\ state.injected_context < MaxInject
    /\ state' = [state EXCEPT !.injected_context = @ + 1]
    /\ disk' = save(state')
    /\ lh' = [lh EXCEPT !.extPaused = FALSE]
    /\ UNCHANGED <<max_iterations, lpc, iteration_num, checkpoint_id, timed_out, success, ret>>
    /\ LoopFrame

\* Another actor (another process holding the loop id) rewrites the status
\* in the state file: LoopState.load, status := s, LoopState.save.
ExternalWrite ==
    /\ disk # NoFile
    /\ \E s \in {"paused", "running", "cancelled"} :
         /\ disk' = [disk EXCEPT !.status = s]
         /\ lh' = [lh EXCEPT !.ctl = TRUE, !.ctlRun = lh.det,
                             !.extPaused = (s = "paused" /\ InLoop /\ LoopCondition)]
    /\ UNCHANGED <<state, max_iterations, lpc, iteration_num, checkpoint_id, timed_out, success, ret>>
    /\ LoopFrame

\* The process is gone; a new one loads the state file and rebuilds the
\* loop with Loop.resume_from_state.
resume_from_state ==
    /\ disk # NoFile
    /\ state' = disk
    /\ lpc' = "idle"
    /\ ret' = "none"
    /\ iteration_num' = 0
    /\ checkpoint_id' = "none"
    /\ timed_out' = FALSE
    /\ success' = FALSE
    /\ lh' = [NextHistory(lh, disk) EXCEPT !.resumed = TRUE, !.ctlRun = FALSE,
                 !.allRecorded = lh.det /\ lh.world = Len(disk.iterations)]
    /\ UNCHANGED <<disk, max_iterations>>
    /\ LoopFrame

LoopNext ==
    \/ RunVerify
    \/ RunInitialCheckpoint
    \/ RunSetRunning
    \/ RunPausedTick
    \/ RunCancelled
    \/ IterBegin
    \/ IterAgent
    \/ IterPromise
    \/ IterEnd
    \/ RunMaxReached
    \/ pause
    \/ resume
    \/ cancel
    \/ inject_context
    \/ ExternalWrite
    \/ resume_from_state

\* ================================================================ Part R
Callers == 1..NumCallers

RpcStart ==
    /\ request_id = 0
    /\ childPending = {}
    /\ stdout = <<>>
    /\ waiter = 0
    /\ tpc = [t \in Callers |-> "idle"]
    /\ treq = [t \in Callers |-> 0]
    /\ tres = [t \in Callers |-> 0]
    /\ abandoned = {}
    /\ tlate = [t \in Callers |-> {}]

RpcIdle == RpcStart

\* The caller allocates the id (next_request_id) and _send_mcp_request writes
\* the request to the child's stdin (lines 391-394); drain() suspends.
SendRequest(t) ==
    /\ tpc[t] \in {"idle", "done"}
    /\ request_id < MaxReq
    /\ request_id' = request_id + 1
    /\ treq' = [treq EXCEPT ![t] = request_id + 1]
    /\ tres' = [tres EXCEPT ![t] = 0]
    /\ childPending' = childPending \cup {request_id + 1}
    /\ tpc' = [tpc EXCEPT ![t] = "sent"]
    /\ tlate' = [tlate EXCEPT ![t] = abandoned]
    /\ UNCHANGED <<stdout, waiter, abandoned>>
    /\ RpcFrame

\* What the request returns when a line is there: the next line of stdout,
\* whatever its id (lines 397-405).
NextLine == Head(stdout)

\* stdout.readline() (lines 397-400): a buffered line is returned at once;
\* with none, the task becomes the reader's waiter; a second task waiting on
\* the same reader gets RuntimeError, which line 409 turns into None.
ReadResponse(t) ==
    /\ tpc[t] \in {"sent", "waiting"}
    /\ IF stdout # <<>>
       THEN /\ tres' = [tres EXCEPT ![t] = NextLine]
            /\ stdout' = Tail(stdout)
            /\ tpc' = [tpc EXCEPT ![t] = "done"]
            /\ waiter' = IF waiter = t THEN 0 ELSE waiter
            /\ UNCHANGED abandoned
       ELSE IF waiter = 0
       THEN /\ waiter' = t
            /\ tpc' = [tpc EXCEPT ![t] = "waiting"]
            /\ UNCHANGED <<tres, stdout, abandoned>>
       ELSE /\ waiter # t
            /\ tres' = [tres EXCEPT ![t] = 0]
            /\ tpc' = [tpc EXCEPT ![t] = "done"]
            /\ abandoned' = abandoned \cup {treq[t]}
            /\ UNCHANGED <<stdout, waiter>>
    /\ UNCHANGED <<request_id, childPending, treq, tlate>>
    /\ RpcFrame

\* asyncio.wait_for gives up (lines 407-408), or the caller is cancelled:
\* the request returns None; what the child writes later stays in stdout.
RequestTimeout(t) ==
    /\ tpc[t] = "waiting"
    /\ tres' = [tres EXCEPT ![t] = 0]
    /\ tpc' = [tpc EXCEPT ![t] = "done"]
    /\ waiter' = IF waiter = t THEN 0 ELSE waiter
    /\ abandoned' = abandoned \cup {treq[t]}
    /\ UNCHANGED <<request_id, childPending, stdout, treq, tlate>>
    /\ RpcFrame

\* The child answers one of the requests it has read, in any order; the
\* line lands in the StreamReader, which wakes its waiter.
ChildRespond ==
    /\ \E id \in childPending :
         /\ childPending' = childPending \ {id}
         /\ stdout' = Append(stdout, id)
    /\ waiter' = 0
    /\ UNCHANGED <<request_id, tpc, treq, tres, abandoned, tlate>>
    /\ RpcFrame

RpcNext ==
    \/ \E t \in Callers : SendRequest(t)
    \/ \E t \in Callers : ReadResponse(t)
    \/ \E t \in Callers : RequestTimeout(t)
    \/ ChildRespond

\* ================================================================ Part H
\* The tool hub is a single-threaded asyncio program: a task runs until it
\* awaits. A task whose pc is in Inline is between two awaits, and no other
\* task and no child moves until it reaches the next await.
ServerNames == {"fs"}
Procs == 1..MaxProcs
Clients == 1..NumClients
HealthTask == NumClients + 1
HubTasks == 1..(NumClients + 1)

Inline == {"start0", "stop0", "stop_del", "restart0", "health0", "health_next",
           "return", "raise"}

\* ServerProcess as the dataclass builds it.
NewServerProcess == [status |-> "stopped", restart_count |-> 0, health_failures |-> 0]

IdleTask == [op |-> "idle", pc |-> "idle", name |-> "fs", sp |-> 0, rc |-> 0,
             rv |-> FALSE, stack |-> <<>>, q |-> <<>>]

\* What is recorded of the children and of the health checks.
NewHubHistory ==
    [streak |-> [p \in Procs |-> 0],  \* failed health checks of the record since
                                      \* its last successful one
     expired |-> {},                  \* children whose 5 s wait after SIGTERM ran out
     sigkill |-> {},                  \* children that were sent SIGKILL
     stopped |-> {}]                  \* children a completed _stop_server was for

HubStart ==
    /\ hh = NewHubHistory
    /\ servers = [n \in ServerNames |-> 0]
    /\ srv = [p \in Procs |-> NewServerProcess]
    /\ proc = [p \in Procs |-> "none"]
    /\ nprocs = 0
    /\ stderr_tasks = [n \in ServerNames |-> 0]
    /\ collecting = {}
    /\ task = [t \in HubTasks |-> IdleTask]

HubIdle == HubStart

\* The hub with its server running, restarted restart_count times so far.
HubRunning ==
    /\ hh = NewHubHistory
    /\ servers = [n \in ServerNames |-> 1]
    /\ \E rc \in 0..MAX_RESTART_ATTEMPTS :
         srv = [p \in Procs |->
                  IF p = 1 THEN [status |-> "running", restart_count |-> rc,
                                 health_failures |-> 0]
                  ELSE NewServerProcess]
    /\ proc = [p \in Procs |-> IF p = 1 THEN "alive" ELSE "none"]
    /\ nprocs = 1
    /\ stderr_tasks = [n \in ServerNames |-> 1]
    /\ collecting = {1}
    /\ task = [t \in HubTasks |-> IdleTask]

\* Task t may take a step: no other task is between two awaits.
MayRun(t) == \A u \in HubTasks \ {t} : task[u].pc \notin Inline
Quiet == \A u \in HubTasks : task[u].pc \notin Inline

SetTask(t, r) == task' = [task EXCEPT ![t] = r]
Goto(t, pc) == SetTask(t, [task[t] EXCEPT !.pc = pc])
\* A call returns v / raises: the frames on the stack decide what follows.
ReturnValue(t, v) == SetTask(t, [task[t] EXCEPT !.pc = "return", !.rv = v])
Call(t, frame, pc) ==
    SetTask(t, [task[t] EXCEPT !.pc = pc, !.stack = <<frame>> \o @])

\* _process_request (lines 452-508): a client connection asks to start, stop
\* or restart a server.
ClientRequest(t) ==
    /\ t \in Clients
    /\ Quiet
    /\ task[t].op = "idle"
    /\ \E op \in {"start", "stop", "restart"}, n \in ServerNames :
         SetTask(t, [IdleTask EXCEPT !.op = op, !.name = n,
                        !.pc = CASE op = "start" -> "start0"
                                 [] op = "stop" -> "stop0"
                                 [] OTHER -> "restart0"])
    /\ UNCHANGED <<servers, srv, proc, nprocs, stderr_tasks, collecting>>
    /\ UNCHANGED hh
    /\ HubFrame

\* _start_server, lines 230-231: the guard.
StartGuard(t) ==
    /\ task[t].pc = "start0"
    /\ IF servers[task[t].name] # 0 /\ srv[servers[task[t].name]].status = "running"
       THEN ReturnValue(t, TRUE)
       ELSE Goto(t, "start_spawn")
    /\ UNCHANGED <<servers, srv, proc, nprocs, stderr_tasks, collecting>>
    /\ UNCHANGED hh
    /\ HubFrame

\* _start_server, lines 245-268: create_subprocess_exec returns (or raises,
\* lines 278-280); the new ServerProcess replaces the entry of the map and
\* a new stderr collector replaces the entry of _stderr_tasks.
StartSpawn(t) ==
    /\ task[t].pc = "start_spawn"
    /\ MayRun(t)
    /\ \/ /\ nprocs < MaxProcs
          /\ LET p == nprocs + 1 IN
             /\ nprocs' = p
             /\ proc' = [proc EXCEPT ![p] = "alive"]
             /\ srv' = [srv EXCEPT ![p] = [NewServerProcess EXCEPT !.status = "starting"]]
             /\ servers' = [servers EXCEPT ![task[t].name] = p]
             /\ stderr_tasks' = [stderr_tasks EXCEPT ![task[t].name] = p]
             /\ collecting' = collecting \cup {p}
             /\ SetTask(t, [task[t] EXCEPT !.pc = "start_init", !.sp = p])
       \/ /\ ReturnValue(t, FALSE)
          /\ UNCHANGED <<servers, srv, proc, nprocs, stderr_tasks, collecting>>
    /\ UNCHANGED hh
    /\ HubFrame

\* _start_server, lines 270-277: _initialize_server returns.
StartInitialized(t) ==
    /\ task[t].pc = "start_init"
    /\ MayRun(t)
    /\ \/ /\ proc[task[t].sp] = "alive"
          /\ srv' = [srv EXCEPT ![task[t].sp].status = "running"]
          /\ ReturnValue(t, TRUE)
       \/ /\ Call(t, "start_failed", "stop0")
          /\ UNCHANGED srv
    /\ UNCHANGED <<servers, proc, nprocs, stderr_tasks, collecting>>
    /\ UNCHANGED hh
    /\ HubFrame

\* StopBegin that leaves the stderr collector registered and running.
StopBegin_KeepsCollector(t) ==
    /\ task[t].pc = "stop0"
    /\ LET n == task[t].name IN
       IF servers[n] = 0
       THEN ReturnValue(t, FALSE)
       ELSE \/ SetTask(t, [task[t] EXCEPT !.pc = "stop_wait", !.sp = servers[n]])
            \/ /\ proc[servers[n]] = "exited"
               /\ SetTask(t, [task[t] EXCEPT !.pc = "stop_del", !.sp = servers[n]])
    /\ UNCHANGED <<stderr_tasks, collecting>>
    /\ UNCHANGED <<servers, srv, proc, nprocs>>
    /\ UNCHANGED hh
    /\ HubFrame

\* _stop_server, lines 284-296: the collector is cancelled, the process is
\* sent SIGTERM and awaited for 5 s (terminate() on a process that is gone
\* raises, and line 300 goes on to the del).
StopBegin(t) ==
    /\ task[t].pc = "stop0"
    /\ LET n == task[t].name IN
       IF servers[n] = 0
       THEN /\ ReturnValue(t, FALSE)
            /\ UNCHANGED <<stderr_tasks, collecting>>
       ELSE /\ stderr_tasks' = [stderr_tasks EXCEPT ![n] = 0]
            /\ collecting' = collecting \ {stderr_tasks[n]}
            /\ \/ SetTask(t, [task[t] EXCEPT !.pc = "stop_wait", !.sp = servers[n]])
               \/ /\ proc[servers[n]] = "exited"
                  /\ SetTask(t, [task[t] EXCEPT !.pc = "stop_del", !.sp = servers[n]])
    /\ UNCHANGED <<servers, srv, proc, nprocs>>
    /\ UNCHANGED hh
    /\ HubFrame

\* The child is gone: its stderr reaches end of file and its collector ends.
Exited(p) ==
    /\ proc' = [proc EXCEPT ![p] = "exited"]
    /\ collecting' = collecting \ {p}

\* _stop_server, lines 296-299: within 5 s the child exits, or wait_for
\* times out and the child is sent SIGKILL.
StopWaited(t) ==
    /\ task[t].pc = "stop_wait"
    /\ MayRun(t)
    /\ \/ /\ Exited(task[t].sp)
          /\ Goto(t, "stop_del")
          /\ UNCHANGED hh
       \/ /\ proc[task[t].sp] = "alive"
          /\ Goto(t, "stop_kill")
          /\ hh' = [hh EXCEPT !.expired = @ \cup {task[t].sp},
                              !.sigkill = @ \cup {task[t].sp}]
          /\ UNCHANGED <<proc, collecting>>
    /\ UNCHANGED <<servers, srv, nprocs, stderr_tasks>>
    /\ HubFrame

\* _stop_server, lines 298-299: the killed child has exited.
StopKilled(t) ==
    /\ task[t].pc = "stop_kill"
    /\ MayRun(t)
    /\ Exited(task[t].sp)
    /\ Goto(t, "stop_del")
    /\ UNCHANGED <<servers, srv, nprocs, stderr_tasks>>
    /\ UNCHANGED hh
    /\ HubFrame

\* _stop_server, line 303: del self.servers[name] (KeyError when another
\* stop removed the entry meanwhile).
StopDelete(t) ==
    /\ task[t].pc = "stop_del"
    /\ IF servers[task[t].name] = 0
       THEN /\ Goto(t, "raise")
            /\ UNCHANGED servers
       ELSE /\ servers' = [servers EXCEPT ![task[t].name] = 0]
            /\ ReturnValue(t, FALSE)
    /\ hh' = [hh EXCEPT !.stopped = @ \cup {task[t].sp}]
    /\ UNCHANGED <<srv, proc, nprocs, stderr_tasks, collecting>>
    /\ HubFrame

\* _restart_server, lines 196-203.
RestartBegin(t) ==
    /\ task[t].pc = "restart0"
    /\ LET n == task[t].name IN
       IF servers[n] = 0
       THEN ReturnValue(t, FALSE)
       ELSE SetTask(t, [task[t] EXCEPT !.pc = "stop0",
                           !.rc = srv[servers[n]].restart_count + 1,
                           !.stack = <<"restart_stop">> \o @])
    /\ UNCHANGED <<servers, srv, proc, nprocs, stderr_tasks, collecting>>
    /\ UNCHANGED hh
    /\ HubFrame

\* The entries of the map _check_all_servers still has to look at.
Snapshot == IF servers["fs"] = 0 THEN <<>> ELSE << <<"fs", servers["fs"]>> >>

\* _health_check_loop / _check_all_servers, line 154: a round begins.
HealthRound(t) ==
    /\ t = HealthTask
    /\ Quiet
    /\ task[t].op = "idle"
    /\ \A n \in ServerNames :
          servers[n] # 0 => srv[servers[n]].health_failures < MaxFailures
    /\ SetTask(t, [IdleTask EXCEPT !.op = "health", !.pc = "health_next",
                      !.q = Snapshot])
    /\ UNCHANGED <<servers, srv, proc, nprocs, stderr_tasks, collecting>>
    /\ UNCHANGED hh
    /\ HubFrame

\* HealthOutcome with a successful check that leaves health_failures as it was.
HealthOutcome_NoReset(t, healthy) ==
    LET n == Head(task[t].q)[1]
        p == Head(task[t].q)[2]
        failures == srv[p].health_failures + 1
        rest == [task[t] EXCEPT !.q = Tail(@), !.name = n]
    IN
    /\ hh' = [hh EXCEPT !.streak[p] = IF healthy THEN 0 ELSE @ + 1]
    /\ IF healthy
       THEN /\ srv' = [srv EXCEPT ![p].status = IF @ = "unhealthy" THEN "running" ELSE @]
            /\ SetTask(t, [rest EXCEPT !.pc = "health_next"])
       ELSE IF failures >= MAX_HEALTH_FAILURES
       THEN /\ srv' = [srv EXCEPT ![p].health_failures = failures,
                                  ![p].status = "unhealthy"]
            /\ IF srv[p].restart_count < MAX_RESTART_ATTEMPTS
               THEN SetTask(t, [rest EXCEPT !.pc = "restart0",
                                   !.stack = <<"health_restart">> \o @])
               ELSE SetTask(t, [rest EXCEPT !.pc = "health_next"])
       ELSE /\ srv' = [srv EXCEPT ![p].health_failures = failures]
            /\ SetTask(t, [rest EXCEPT !.pc = "health_next"])

\* _check_all_servers, lines 160-175: the outcome of one health check.
\* The ServerProcess is the one of the snapshot; the restart looks the name
\* up in the map.
HealthOutcome(t, healthy) ==
    LET n == Head(task[t].q)[1]
        p == Head(task[t].q)[2]
        failures == srv[p].health_failures + 1
        rest == [task[t] EXCEPT !.q = Tail(@), !.name = n]
    IN
    /\ hh' = [hh EXCEPT !.streak[p] = IF healthy THEN 0 ELSE @ + 1]
    /\ IF healthy
       THEN /\ srv' = [srv EXCEPT ![p].health_failures = 0,
                                  ![p].status = IF @ = "unhealthy" THEN "running" ELSE @]
            /\ SetTask(t, [rest EXCEPT !.pc = "health_next"])
       ELSE IF failures >= MAX_HEALTH_FAILURES
       THEN /\ srv' = [srv EXCEPT ![p].health_failures = failures,
                                  ![p].status = "unhealthy"]
            /\ IF srv[p].restart_count < MAX_RESTART_ATTEMPTS
               THEN SetTask(t, [rest EXCEPT !.pc = "restart0",
                                   !.stack = <<"health_restart">> \o @])
               ELSE SetTask(t, [rest EXCEPT !.pc = "health_next"])
       ELSE /\ srv' = [srv EXCEPT ![p].health_failures = failures]
            /\ SetTask(t, [rest EXCEPT !.pc = "health_next"])

\* _check_all_servers, lines 154-158 and _health_check, lines 179-180: the
\* next entry; one that is not running or unhealthy is skipped, one whose
\* process is gone fails at once, the others are sent tools/list.
HealthNext(t) ==
    /\ task[t].pc = "health_next"
    /\ IF task[t].q = <<>>
       THEN /\ SetTask(t, IdleTask)
            /\ UNCHANGED <<srv, hh>>
       ELSE LET p == Head(task[t].q)[2] IN
            IF srv[p].status \notin {"running", "unhealthy"}
            THEN /\ SetTask(t, [task[t] EXCEPT !.q = Tail(@)])
                 /\ UNCHANGED <<srv, hh>>
            ELSE IF proc[p] # "alive"
            THEN HealthOutcome(t, FALSE)
            ELSE /\ Goto(t, "health_wait")
                 /\ UNCHANGED <<srv, hh>>
    /\ UNCHANGED <<servers, proc, nprocs, stderr_tasks, collecting>>
    /\ HubFrame

\* _health_check, lines 189-192: the request returns, or times out.
HealthChecked(t) ==
    /\ task[t].pc = "health_wait"
    /\ MayRun(t)
    /\ \/ /\ proc[Head(task[t].q)[2]] = "alive"
          /\ HealthOutcome(t, TRUE)
       \/ HealthOutcome(t, FALSE)
    /\ UNCHANGED <<servers, proc, nprocs, stderr_tasks, collecting>>
    /\ HubFrame

\* A call has returned task[t].rv: the caller goes on.
Returned(t) ==
    /\ task[t].pc = "return"
    /\ LET tk == task[t]
           n == tk.name
           up == [tk EXCEPT !.stack = Tail(@)]
       IN
       IF tk.stack = <<>>
       THEN /\ SetTask(t, IdleTask)
            /\ UNCHANGED srv
       ELSE CASE Head(tk.stack) = "start_failed" ->
                   \* _start_server, line 277
                   /\ SetTask(t, [up EXCEPT !.rv = FALSE])
                   /\ UNCHANGED srv
              [] Head(tk.stack) = "restart_stop" ->
                   \* _restart_server, line 203
                   /\ SetTask(t, [up EXCEPT !.pc = "start0",
                                     !.stack = <<"restart_start">> \o @])
                   /\ UNCHANGED srv
              [] Head(tk.stack) = "restart_start" ->
                   \* _restart_server, lines 205-209
                   /\ srv' = IF tk.rv /\ servers[n] # 0
                             THEN [srv EXCEPT ![servers[n]].restart_count = tk.rc]
                             ELSE srv
                   /\ SetTask(t, up)
              [] OTHER ->
                   \* _check_all_servers, line 175: back in the for loop
                   /\ SetTask(t, [up EXCEPT !.pc = "health_next"])
                   /\ UNCHANGED srv
    /\ UNCHANGED <<servers, proc, nprocs, stderr_tasks, collecting>>
    /\ UNCHANGED hh
    /\ HubFrame

\* An exception propagates: _start_server catches it (lines 278-280) and
\* returns False; past that it ends the request (_handle_client, line 431)
\* or the health round (_health_check_loop, line 149).
Raised(t) ==
    /\ task[t].pc = "raise"
    /\ LET tk == task[t] IN
       IF tk.stack # <<>> /\ Head(tk.stack) = "start_failed"
       THEN SetTask(t, [tk EXCEPT !.pc = "return", !.rv = FALSE, !.stack = Tail(@)])
       ELSE SetTask(t, IdleTask)
    /\ UNCHANGED <<servers, srv, proc, nprocs, stderr_tasks, collecting>>
    /\ UNCHANGED hh
    /\ HubFrame

\* A child exits on its own.
ChildExit(p) ==
    /\ Quiet
    /\ proc[p] = "alive"
    /\ Exited(p)
    /\ UNCHANGED <<servers, srv, nprocs, stderr_tasks, task>>
    /\ UNCHANGED hh
    /\ HubFrame

HubNext ==
    \/ \E t \in HubTasks : ClientRequest(t)
    \/ \E t \in HubTasks : StartGuard(t)
    \/ \E t \in HubTasks : StartSpawn(t)
    \/ \E t \in HubTasks : StartInitialized(t)
    \/ \E t \in HubTasks : StopBegin(t)
    \/ \E t \in HubTasks : StopWaited(t)
    \/ \E t \in HubTasks : StopKilled(t)
    \/ \E t \in HubTasks : StopDelete(t)
    \/ \E t \in HubTasks : RestartBegin(t)
    \/ \E t \in HubTasks : HealthRound(t)
    \/ \E t \in HubTasks : HealthNext(t)
    \/ \E t \in HubTasks : HealthChecked(t)
    \/ \E t \in HubTasks : Returned(t)
    \/ \E t \in HubTasks : Raised(t)
    \/ \E p \in Procs : ChildExit(p)

\* ================================================================ Part P
\* The language-server pool (lsppool/servers.py ServerManager and the idle
\* loop of lsppool/daemon.py), a single-threaded asyncio program like the
\* tool hub: a task whose pc is in PInline is between two awaits.
Keys == {"a", "b"}
PoolClients == 1..NumPoolClients
CleanupTask == NumPoolClients + 1
PoolTasks == 1..(NumPoolClients + 1)

\* Config.idle_timeout_minutes, in ticks, and memory_estimate_mb of every
\* configured language, in the unit of MaxRss.
idle_timeout == 1
memory_estimate_mb == 2

PInline == {"g0", "w_locked", "evict", "w_mem", "stop0", "stop_del", "w_fail",
            "w_ret", "raise", "idle_next"}

NoServer == [present |-> FALSE, status |-> "none", last_query |-> 0, id |-> 0]

PIdleTask == [op |-> "idle", pc |-> "idle", key |-> "a", sid |-> 0,
              stopkey |-> "a", after |-> "none", q |-> <<>>, rv |-> FALSE]

\* What is recorded of the requests so far.
NewPoolHistory ==
    [serial |-> TRUE,     \* the requests so far ran one after the other and the
                          \* idle loop has not run
     warmed |-> <<>>,     \* while serial: the keys whose warm request returned
                          \* True, in order (the first two)
     held |-> {}]         \* while serial: the servers (by id) in the pool when
                          \* the latest request began

\* Two requests overlap, or the idle loop runs: the requests are no longer
\* followed.
NotSerial == [serial |-> FALSE, warmed |-> <<>>, held |-> {}]

PoolIdle ==
    /\ pconfig = [max_servers |-> 1, memory_limit_mb |-> memory_estimate_mb]
    /\ pool = [k \in Keys |-> NoServer]
    /\ plock = 0
    /\ pspawned = 0
    /\ pnow = 0
    /\ ptask = [t \in PoolTasks |-> PIdleTask]
    /\ ph = NewPoolHistory

\* The pool as ServerManager.__init__ builds it, under a configuration in
\* which one estimate fits the memory limit and two do not.
PoolStart ==
    /\ pconfig \in [max_servers : 1..MaxServers,
                    memory_limit_mb : memory_estimate_mb..(2 * memory_estimate_mb - 1)]
    /\ pool = [k \in Keys |-> NoServer]
    /\ plock = 0
    /\ pspawned = 0
    /\ pnow = 0
    /\ ptask = [t \in PoolTasks |-> PIdleTask]
    /\ ph = NewPoolHistory

Present == {k \in Keys : pool[k].present}

PMayRun(t) == \A u \in PoolTasks \ {t} : ptask[u].pc \notin PInline
PQuiet == \A u \in PoolTasks : ptask[u].pc \notin PInline
PBusy(t) == ptask[t].op # "idle"

PSet(t, r) == ptask' = [ptask EXCEPT ![t] = r]
PGoto(t, pc) == PSet(t, [ptask[t] EXCEPT !.pc = pc])

\* _process_request (daemon.py 136-149): a client connection asks to warm a
\* server, or sends a query.
PoolRequest(t) ==
    /\ t \in PoolClients
    /\ PQuiet
    /\ ~PBusy(t)
    /\ \E op \in {"warm", "query"}, k \in Keys :
         PSet(t, [PIdleTask EXCEPT !.op = op, !.key = k,
                     !.pc = IF op = "warm" THEN "w_lock" ELSE "g0"])
    /\ ph' = IF ph.serial /\ \A u \in PoolTasks : ~PBusy(u)
             THEN [ph EXCEPT !.held = {pool[k].id : k \in Present}]
             ELSE NotSerial
    /\ UNCHANGED <<pconfig, pool, plock, pspawned, pnow>>
    /\ PoolFrame

\* get_server, lines 172-175: a key that is absent is warmed first.
\* (The present one is handled by PReturn: lines 177-181.)
PGetServer(t) ==
    /\ ptask[t].pc = "g0"
    /\ IF pool[ptask[t].key].present
       THEN PSet(t, [ptask[t] EXCEPT !.pc = "w_ret", !.rv = TRUE])
       ELSE PGoto(t, "w_lock")
    /\ UNCHANGED <<pconfig, pool, plock, pspawned, pnow, ph>>
    /\ PoolFrame

\* warm, line 94: the lock is acquired.
PWarmLock(t) ==
    /\ ptask[t].pc = "w_lock"
    /\ PMayRun(t)
    /\ plock = 0
    /\ plock' = t
    /\ PGoto(t, "w_locked")
    /\ UNCHANGED <<pconfig, pool, pspawned, pnow, ph>>
    /\ PoolFrame

\* warm, lines 95-100: a warm server is returned; a full pool evicts one.
PWarmCheck(t) ==
    /\ ptask[t].pc = "w_locked"
    /\ LET k == ptask[t].key IN
       IF pool[k].present /\ pool[k].status = "warm"
       THEN /\ plock' = 0
            /\ PSet(t, [ptask[t] EXCEPT !.pc = "w_ret", !.rv = TRUE])
       ELSE /\ UNCHANGED plock
            /\ IF Cardinality(Present) >= pconfig.max_servers
               THEN PSet(t, [ptask[t] EXCEPT !.pc = "evict", !.after = "w_mem"])
               ELSE PGoto(t, "w_mem")
    /\ UNCHANGED <<pconfig, pool, pspawned, pnow, ph>>
    /\ PoolFrame

\* _evict_lowest_priority, lines 320-331: the server with the oldest
\* last_query is stopped.
PEvict(t) ==
    /\ ptask[t].pc = "evict"
    /\ IF Present = {}
       THEN PGoto(t, ptask[t].after)
       ELSE \E k \in Present :
              /\ \A j \in Present : pool[k].last_query <= pool[j].last_query
              /\ PSet(t, [ptask[t] EXCEPT !.pc = "stop0", !.stopkey = k])
    /\ UNCHANGED <<pconfig, pool, plock, pspawned, pnow, ph>>
    /\ PoolFrame

\* _current_memory + _estimate_memory against the limit (lines 102-105 and
\* _evict_for_memory, 333-338): psutil reports some resident size for each
\* server (or is absent and memory_mb stays 0.0).
PWarmMemory(t) ==
    /\ ptask[t].pc = "w_mem"
    /\ \E current_mem \in 0..(Cardinality(Present) * MaxRss) :
         IF /\ current_mem + memory_estimate_mb > pconfig.memory_limit_mb
            /\ Present # {}
         THEN /\ PSet(t, [ptask[t] EXCEPT !.pc = "evict", !.after = "w_mem"])
              /\ UNCHANGED plock
         ELSE /\ plock' = 0
              /\ PGoto(t, "w_spawn")
    /\ UNCHANGED <<pconfig, pool, pspawned, pnow, ph>>
    /\ PoolFrame

\* warm, lines 123-139: create_subprocess_exec returns and the new
\* ServerState replaces the entry of the map; or the language has no
\* configuration or no command (107-119), or the spawn raises (151-153), and
\* warm returns False.
PWarmSpawn(t) ==
    /\ ptask[t].pc = "w_spawn"
    /\ PMayRun(t)
    /\ \/ /\ pspawned < MaxSpawn
          /\ pspawned' = pspawned + 1
          /\ pool' = [pool EXCEPT ![ptask[t].key] =
                         [present |-> TRUE, status |-> "initializing",
                          last_query |-> pnow, id |-> pspawned + 1]]
          /\ PSet(t, [ptask[t] EXCEPT !.pc = "w_init", !.sid = pspawned + 1])
       \/ /\ PSet(t, [ptask[t] EXCEPT !.pc = "w_ret", !.rv = FALSE])
          /\ UNCHANGED <<pool, pspawned>>
    /\ UNCHANGED <<pconfig, plock, pnow, ph>>
    /\ PoolFrame

\* warm, lines 142-150: _initialize_server returns.
PWarmInitialized(t) ==
    /\ ptask[t].pc = "w_init"
    /\ PMayRun(t)
    /\ LET k == ptask[t].key IN
       \/ /\ pool' = IF pool[k].present /\ pool[k].id = ptask[t].sid
                     THEN [pool EXCEPT ![k].status = "warm"]
                     ELSE pool
          /\ PSet(t, [ptask[t] EXCEPT !.pc = "w_ret", !.rv = TRUE])
       \/ /\ PSet(t, [ptask[t] EXCEPT !.pc = "stop0", !.stopkey = k,
                         !.after = "w_fail"])
          /\ UNCHANGED pool
    /\ UNCHANGED <<pconfig, plock, pspawned, pnow, ph>>
    /\ PoolFrame

\* warm, line 150: False after the failed server was stopped.
PWarmFailed(t) ==
    /\ ptask[t].pc = "w_fail"
    /\ PSet(t, [ptask[t] EXCEPT !.pc = "w_ret", !.rv = FALSE])
    /\ UNCHANGED <<pconfig, pool, plock, pspawned, pnow, ph>>
    /\ PoolFrame

\* warm has returned rv; get_server, lines 177-181, stamps last_query on the
\* entry of the key; the request is answered.
PReturn(t) ==
    /\ ptask[t].pc = "w_ret"
    /\ LET k == ptask[t].key IN
       /\ pool' = IF ptask[t].op = "query" /\ ptask[t].rv /\ pool[k].present
                  THEN [pool EXCEPT ![k].last_query = pnow]
                  ELSE pool
       /\ ph' = IF /\ ph.serial /\ ptask[t].op = "warm" /\ ptask[t].rv
                   /\ Len(ph.warmed) < 2
                THEN [ph EXCEPT !.warmed = Append(@, k)]
                ELSE ph
    /\ PSet(t, PIdleTask)
    /\ UNCHANGED <<pconfig, plock, pspawned, pnow>>
    /\ PoolFrame

\* _stop_server, lines 279-295: an absent key returns; else the shutdown
\* request is sent and awaited.
PStopBegin(t) ==
    /\ ptask[t].pc = "stop0"
    /\ IF pool[ptask[t].stopkey].present
       THEN PGoto(t, "stop_wait")
       ELSE PGoto(t, ptask[t].after)
    /\ UNCHANGED <<pconfig, pool, plock, pspawned, pnow, ph>>
    /\ PoolFrame

\* _stop_server, lines 291-309: the child answers, gets the exit notification
\* and exits within 5 s; or one of the two waits times out and the child is
\* killed.
PStopWaited(t) ==
    /\ ptask[t].pc = "stop_wait"
    /\ PMayRun(t)
    /\ \/ PGoto(t, "stop_del")
       \/ PGoto(t, "stop_kill")
    /\ UNCHANGED <<pconfig, pool, plock, pspawned, pnow, ph>>
    /\ PoolFrame

\* _stop_server, lines 308-309: the killed child is reaped.
PStopKilled(t) ==
    /\ ptask[t].pc = "stop_kill"
    /\ PMayRun(t)
    /\ PGoto(t, "stop_del")
    /\ UNCHANGED <<pconfig, pool, plock, pspawned, pnow, ph>>
    /\ PoolFrame

\* _stop_server, line 317: del self.servers[key] (KeyError when another stop
\* removed the entry meanwhile).
PStopDelete(t) ==
    /\ ptask[t].pc = "stop_del"
    /\ LET k == ptask[t].stopkey IN
       IF pool[k].present
       THEN /\ pool' = [pool EXCEPT ![k] = NoServer]
            /\ PGoto(t, ptask[t].after)
       ELSE /\ PGoto(t, "raise")
            /\ UNCHANGED pool
    /\ UNCHANGED <<pconfig, plock, pspawned, pnow, ph>>
    /\ PoolFrame

\* An exception propagates: warm's try (lines 122-153) turns the one of its
\* own _stop_server into False; the one of an eviction leaves the lock
\* (async with) and ends the request (_handle_client, daemon.py 110-113);
\* nothing catches it in _idle_cleanup_loop, whose task ends.
PRaised(t) ==
    /\ ptask[t].pc = "raise"
    /\ plock' = IF plock = t THEN 0 ELSE plock
    /\ IF ptask[t].after = "w_fail"
       THEN PSet(t, [ptask[t] EXCEPT !.pc = "w_ret", !.rv = FALSE])
       ELSE IF t = CleanupTask
       THEN PSet(t, [PIdleTask EXCEPT !.op = "dead", !.pc = "dead"])
       ELSE PSet(t, PIdleTask)
    /\ UNCHANGED <<pconfig, pool, pspawned, pnow, ph>>
    /\ PoolFrame

\* The keys of the servers whose last_query is older than the timeout, in
\* the order of iteration over the map (any order).
RECURSIVE Orders(_)
Orders(S) ==
    IF S = {} THEN {<<>>}
    ELSE UNION {{<<k>> \o o : o \in Orders(S \ {k})} : k \in S}

IdleServers == {k \in Present : pnow - pool[k].last_query > idle_timeout}

\* _idle_cleanup_loop, lines 354-363: the sleep is over, the idle servers
\* are listed.
PIdleScan(t) ==
    /\ t = CleanupTask
    /\ PQuiet
    /\ ptask[t].op = "idle"
    /\ \E o \in Orders(IdleServers) :
         PSet(t, [PIdleTask EXCEPT !.op = "cleanup", !.pc = "idle_next", !.q = o])
    /\ ph' = NotSerial
    /\ UNCHANGED <<pconfig, pool, plock, pspawned, pnow>>
    /\ PoolFrame

\* _idle_cleanup_loop, lines 365-367: the next listed server is stopped.
PIdleNext(t) ==
    /\ ptask[t].pc = "idle_next"
    /\ IF ptask[t].q = <<>>
       THEN PSet(t, PIdleTask)
       ELSE PSet(t, [ptask[t] EXCEPT !.pc = "stop0", !.stopkey = Head(ptask[t].q),
                        !.q = Tail(@), !.after = "idle_next"])
    /\ UNCHANGED <<pconfig, pool, plock, pspawned, pnow, ph>>
    /\ PoolFrame

\* Time passes.
PTick ==
    /\ PQuiet
    /\ pnow < MaxTime
    /\ pnow' = pnow + 1
    /\ UNCHANGED <<pconfig, pool, plock, pspawned, ptask, ph>>
    /\ PoolFrame

PoolNext ==
    \/ \E t \in PoolTasks : PoolRequest(t)
    \/ \E t \in PoolTasks : PGetServer(t)
    \/ \E t \in PoolTasks : PWarmLock(t)
    \/ \E t \in PoolTasks : PWarmCheck(t)
    \/ \E t \in PoolTasks : PEvict(t)
    \/ \E t \in PoolTasks : PWarmMemory(t)
    \/ \E t \in PoolTasks : PWarmSpawn(t)
    \/ \E t \in PoolTasks : PWarmInitialized(t)
    \/ \E t \in PoolTasks : PWarmFailed(t)
    \/ \E t \in PoolTasks : PReturn(t)
    \/ \E t \in PoolTasks : PStopBegin(t)
    \/ \E t \in PoolTasks : PStopWaited(t)
    \/ \E t \in PoolTasks : PStopKilled(t)
    \/ \E t \in PoolTasks : PStopDelete(t)
    \/ \E t \in PoolTasks : PRaised(t)
    \/ \E t \in PoolTasks : PIdleScan(t)
    \/ \E t \in PoolTasks : PIdleNext(t)
    \/ PTick

\* ================================================================ Part T
\* src/daedalos-tools/mcp-hub/mcphub/daemon.py: MCPHubDaemon._route_tool_call,
\* the routing of a call_tool request. The function picks its server without
\* an await, so the map does not change while it looks.

\* The servers the registry names and the tools they may advertise.
RouteNames == {"fs", "git"}
ToolNames == {"read", "log"}

\* No target: request.get("server") is None or "".
NoTarget == ""

\* The statuses a record in the map can have: set to starting when it is
\* put there (lines 228-280), running after the initialization, unhealthy by
\* the health loop. tools is filled during the initialization (lines
\* 360-367), before the status turns to running.
KnownStatuses == {"starting", "running", "unhealthy"}

\* The maps of up to two servers, in dict order.
KnownMaps ==
    {<<>>}
    \cup {<<[name |-> n, status |-> st, tools |-> tl]>> :
            n \in RouteNames, st \in KnownStatuses, tl \in SUBSET ToolNames}
    \cup {<<[name |-> n, status |-> st, tools |-> tl],
            [name |-> CHOOSE m \in RouteNames : m # n, status |-> st2, tools |-> tl2]>> :
            n \in RouteNames, st \in KnownStatuses, tl \in SUBSET ToolNames,
            st2 \in KnownStatuses, tl2 \in SUBSET ToolNames}

NoCall == [tool |-> "", server |-> NoTarget]
NoReply == [success |-> FALSE, error |-> ""]

RouteIdle ==
    /\ known = <<>>
    /\ call = NoCall
    /\ rtpc = "idle"
    /\ sent = ""
    /\ reply = NoReply

RouteStart ==
    /\ known \in KnownMaps
    /\ call = NoCall
    /\ rtpc = "idle"
    /\ sent = ""
    /\ reply = NoReply

\* self.servers.get(target_server): the index of the record, 0 for None.
ServersGet(name) ==
    IF \E i \in 1..Len(known) : known[i].name = name
    THEN CHOOSE i \in 1..Len(known) : known[i].name = name
    ELSE 0

\* Lines 520-527: the first record, in dict order from i on, one of whose
\* tools has the name; 0 when the loop ends without one.
RECURSIVE FirstWithTool(_, _)
FirstWithTool(tool_name, i) ==
    IF i > Len(known) THEN 0
    ELSE IF tool_name \in known[i].tools THEN i
    ELSE FirstWithTool(tool_name, i + 1)

\* _process_request, lines 459-460: a call_tool request arrives.
CallTool(tool_name, target_server) ==
    /\ rtpc \in {"idle", "done"}
    /\ call' = [tool |-> tool_name, server |-> target_server]
    /\ rtpc' = "route"
    /\ sent' = ""
    /\ reply' = NoReply
    /\ UNCHANGED known
    /\ RouteFrame

\* _route_tool_call, lines 512-544: pick the server; without one the answer
\* is the error, otherwise the tools/call request goes to it.
RouteToolCall ==
    /\ rtpc = "route"
    /\ LET server == IF call.server # NoTarget
                     THEN ServersGet(call.server)
                     ELSE FirstWithTool(call.tool, 1)
       IN IF server = 0
          THEN /\ reply' = [success |-> FALSE, error |-> "No server provides tool"]
               /\ rtpc' = "done"
               /\ UNCHANGED sent
          ELSE /\ sent' = known[server].name
               /\ rtpc' = "sent"
               /\ UNCHANGED reply
    /\ UNCHANGED <<known, call>>
    /\ RouteFrame

\* _route_tool_call, lines 544-550: _send_mcp_request came back with None,
\* with an error response or with a result.
RouteAnswered ==
    /\ rtpc = "sent"
    /\ reply' \in {[success |-> FALSE, error |-> "Tool call failed"],
                    [success |-> FALSE, error |-> "response error"],
                    [success |-> TRUE, error |-> ""]}
    /\ rtpc' = "done"
    /\ UNCHANGED <<known, call, sent>>
    /\ RouteFrame

RouteNext ==
    \/ \E tool_name \in ToolNames, target_server \in RouteNames \cup {NoTarget} :
          CallTool(tool_name, target_server)
    \/ RouteToolCall
    \/ RouteAnswered

\* ================================================================ Part G
\* src/daedalos-tools/gates/lib/config.py: the supervision configuration,
\* load_config and load_project_config.

\* config.py, lines 17-23 and 26-31, in their order.
SUPERVISION_LEVELS == <<"autonomous", "supervised", "collaborative", "assisted", "manual">>
GATE_ACTIONS == <<"allow", "notify", "approve", "deny">>

Levels == {SUPERVISION_LEVELS[i] : i \in DOMAIN SUPERVISION_LEVELS}
Actions == {GATE_ACTIONS[i] : i \in DOMAIN GATE_ACTIONS}

\* SUPERVISION_LEVELS.index(level) and the place of an action in GATE_ACTIONS.
LevelIndex(level) == CHOOSE i \in DOMAIN SUPERVISION_LEVELS : SUPERVISION_LEVELS[i] = level
ActionIndex(action) == CHOOSE i \in DOMAIN GATE_ACTIONS : GATE_ACTIONS[i] = action

\* The gate names of the model: three of the ten of DEFAULT_GATES, and
\* "deploy", a gate no default names. A dict of gate actions is a function
\* on GateNames with Unset for the keys it does not have.
GateNames == {"file_delete", "git_force_push", "sensitive_file", "deploy"}
Unset == ""
NoGates == [g \in GateNames |-> Unset]

\* config.py, lines 34-95, for the gates of the model.
DEFAULT_GATES ==
    [level \in Levels |->
        [g \in GateNames |->
            CASE g = "file_delete" -> IF level = "autonomous" THEN "notify" ELSE "approve"
              [] g = "git_force_push" -> IF level = "autonomous" THEN "approve" ELSE "deny"
              [] g = "sensitive_file" -> "approve"
              [] OTHER -> Unset]]

\* A path or a glob is a sequence of pieces; "*" in a glob is fnmatch's star.
\* config.py, lines 98-113: four of the patterns of DEFAULT_AUTONOMY,
\* "*.env", ".env*", "**/secrets/**" and "**/*.pem".
DEFAULT_SENSITIVE_PATHS ==
    {<<"*", ".env">>, <<".env", "*">>,
     <<"*", "*", "/", "secrets", "/", "*", "*">>,
     <<"*", "*", "/", "*", ".pem">>}

\* {**a, **b}: b's entries over a's.
DictMerge(a, b) == [g \in GateNames |-> IF b[g] # Unset THEN b[g] ELSE a[g]]

\* SupervisionConfig(level, gates, autonomy, overrides) with __post_init__,
\* lines 116-134.
SupervisionConfig(level, gates, sensitive_paths, overrides) ==
    LET lv == IF level \in Levels THEN level ELSE "supervised" IN
    [level |-> lv,
     gates |-> DictMerge(DEFAULT_GATES[lv], gates),
     sensitive_paths |-> sensitive_paths,
     overrides |-> overrides]

\* SupervisionConfig.get_gate, lines 136-140.
get_gate(cfg, gate_name) ==
    IF cfg.overrides[gate_name] # Unset THEN cfg.overrides[gate_name]
    ELSE IF cfg.gates[gate_name] # Unset THEN cfg.gates[gate_name]
    ELSE "approve"

NoConfigFile == [exists |-> FALSE]
NoConfig == [level |-> "none"]

\* What a supervision file may hold: a level (Unset when the key is absent,
\* "bogus" for a word that is no level) and at most one gate entry.
FileLevels == Levels \cup {Unset, "bogus"}
UserFiles ==
    {NoConfigFile} \cup
    [exists : {TRUE}, level : FileLevels,
     gates : {NoGates} \cup {[NoGates EXCEPT !["file_delete"] = a] : a \in Actions},
     overrides : {NoGates, [NoGates EXCEPT !["file_delete"] = "deny"]}]
ProjectFiles ==
    {NoConfigFile} \cup
    [exists : {TRUE}, level : FileLevels,
     gates : {NoGates} \cup {[NoGates EXCEPT ![g] = a] :
                                g \in {"file_delete", "sensitive_file"}, a \in Actions}]

ConfigIdle ==
    /\ user_file = NoConfigFile
    /\ project_file = NoConfigFile
    /\ config = NoConfig
    /\ global_config = NoConfig
    /\ cfpc = "idle"

ConfigStart ==
    /\ user_file \in UserFiles
    /\ project_file \in ProjectFiles
    /\ config = NoConfig
    /\ global_config = NoConfig
    /\ cfpc = "idle"

\* load_config, lines 170-192.
load_config ==
    IF ~user_file.exists
    THEN SupervisionConfig("supervised", NoGates, DEFAULT_SENSITIVE_PATHS, NoGates)
    ELSE SupervisionConfig(IF user_file.level = Unset THEN "supervised" ELSE user_file.level,
                           user_file.gates, DEFAULT_SENSITIVE_PATHS, user_file.overrides)

\* load_project_config, line 213: config = load_config().
LoadConfig ==
    /\ cfpc = "idle"
    /\ config' = load_config
    /\ global_config' = load_config
    /\ cfpc' = "loaded"
    /\ UNCHANGED <<user_file, project_file>>
    /\ ConfigFrame

\* load_project_config with a project level that replaces the level
\* whenever it differs.
ApplyProject_AnyLevel ==
    /\ cfpc = "loaded"
    /\ IF ~project_file.exists
       THEN config' = config
       ELSE LET overrides == DictMerge(config.overrides, project_file.gates)
                project_level == project_file.level
            IN IF /\ project_level # Unset
                  /\ project_level \in Levels
                  /\ LevelIndex(project_level) # LevelIndex(config.level)
               THEN config' = SupervisionConfig(project_level, config.gates,
                                                config.sensitive_paths, overrides)
               ELSE config' = [config EXCEPT !.overrides = overrides]
    /\ cfpc' = "done"
    /\ UNCHANGED <<user_file, project_file, global_config>>
    /\ ConfigFrame

\* load_project_config, lines 218-249: the project file's gates go into
\* overrides; its level replaces the level when it is further along
\* SUPERVISION_LEVELS.
ApplyProject ==
    /\ cfpc = "loaded"
    /\ IF ~project_file.exists
       THEN config' = config
       ELSE LET overrides == DictMerge(config.overrides, project_file.gates)
                project_level == project_file.level
            IN IF /\ project_level # Unset
                  /\ project_level \in Levels
                  /\ LevelIndex(project_level) > LevelIndex(config.level)
               THEN config' = SupervisionConfig(project_level, config.gates,
                                                config.sensitive_paths, overrides)
               ELSE config' = [config EXCEPT !.overrides = overrides]
    /\ cfpc' = "done"
    /\ UNCHANGED <<user_file, project_file, global_config>>
    /\ ConfigFrame

ConfigNext ==
    \/ LoadConfig
    \/ ApplyProject

\* ================================================================ Part K
\* src/daedalos-tools/gates/lib/checker.py: check_gate, prompt_for_approval
\* and log_gate_event, called with a SupervisionConfig.

\* The paths a request context carries: "/tmp/x", "/tmp/.env",
\* "/app/secrets/x", "key.pem" and "/tmp/key.pem", in pieces; NoPath when
\* the context has no "path".
NoPath == <<"no path">>
ContextPaths ==
    {<<"/", "tmp", "/", "x">>,
     <<"/", "tmp", "/", ".env">>,
     <<"/", "app", "/", "secrets", "/", "x">>,
     <<"key", ".pem">>,
     <<"/", "tmp", "/", "key", ".pem">>}

\* fnmatch.fnmatch(name, pat): a star stands for any run of pieces, "/"
\* included.
RECURSIVE fnmatch(_, _)
fnmatch(name, pat) ==
    IF pat = <<>> THEN name = <<>>
    ELSE IF Head(pat) = "*"
    THEN fnmatch(name, Tail(pat)) \/ (name # <<>> /\ fnmatch(Tail(name), pat))
    ELSE name # <<>> /\ Head(name) = Head(pat) /\ fnmatch(Tail(name), Tail(pat))

\* os.path.basename(path): what follows the last "/".
RECURSIVE basename(_)
basename(path) ==
    IF \E i \in DOMAIN path : path[i] = "/"
    THEN basename(Tail(path))
    ELSE path

\* SupervisionConfig.is_sensitive_path, config.py lines 142-152.
is_sensitive_path(cfg, path) ==
    \E pattern \in cfg.sensitive_paths :
        fnmatch(path, pattern) \/ fnmatch(basename(path), pattern)

\* What the user types at the prompt; EOF for end of input.
Responses == {"y", "YES", "Yes", "n", "", "EOF"}

\* response.strip().lower() for the responses of the model.
StripLower(response) ==
    CASE response \in {"YES", "Yes"} -> "yes"
      [] response = "Y" -> "y"
      [] OTHER -> response

\* The configurations check_gate is called with: an action the user
\* configured for file_delete ("block" is no gate action) or for
\* sensitive_file, the default sensitive paths or none.
GateConfigs ==
    {SupervisionConfig(level, gates, sensitive_paths, NoGates) :
        level \in {"autonomous", "supervised"},
        gates \in {NoGates, [NoGates EXCEPT !["sensitive_file"] = "deny"]}
                  \cup {[NoGates EXCEPT !["file_delete"] = a] : a \in Actions \cup {"block"}},
        sensitive_paths \in {DEFAULT_SENSITIVE_PATHS, {}}}

NoGateCall == [gate |-> "", path |-> NoPath, interactive |-> FALSE]
NoResult == [allowed |-> FALSE, action |-> "", reason |-> "no result"]
NewGateHistory == [response |-> "none", returned |-> 0]

GateIdle ==
    /\ gate_config = NoConfig
    /\ isatty = FALSE
    /\ now = 0
    /\ audit_log = <<>>
    /\ gcall = NoGateCall
    /\ gate_action = ""
    /\ timestamp = 0
    /\ result = NoResult
    /\ gkpc = "idle"
    /\ gh = NewGateHistory

GateStart ==
    /\ gate_config \in GateConfigs
    /\ isatty \in BOOLEAN
    /\ now = 0
    /\ audit_log = <<>>
    /\ gcall = NoGateCall
    /\ gate_action = ""
    /\ timestamp = 0
    /\ result = NoResult
    /\ gkpc = "idle"
    /\ gh = NewGateHistory

\* log_gate_event that opens the file for writing instead of appending.
log_gate_event_Overwrites(request, res) ==
    <<[timestamp |-> request.timestamp, gate |-> request.gate,
       action |-> request.action,
       result |-> [allowed |-> res.allowed, action |-> res.action,
                   reason |-> res.reason]]>>

\* log_gate_event, lines 56-79: the row appended to the day's file.
log_gate_event(request, res) ==
    Append(audit_log,
           [timestamp |-> request.timestamp, gate |-> request.gate,
            action |-> request.action,
            result |-> [allowed |-> res.allowed, action |-> res.action,
                        reason |-> res.reason]])

\* check_gate, lines 108-112: the action that decides.
GateActionOf(gate, path) ==
    IF path # NoPath /\ is_sensitive_path(gate_config, path)
    THEN get_gate(gate_config, "sensitive_file")
    ELSE get_gate(gate_config, gate)

\* check_gate, lines 122-173, for every action but a prompted approve.
ResultOf(action, interactive) ==
    CASE action = "allow" ->
           [allowed |-> TRUE, action |-> "allow", reason |-> "Gate configured to allow"]
      [] action = "notify" ->
           [allowed |-> TRUE, action |-> "notify", reason |-> "User notified, proceeding"]
      [] action = "deny" ->
           [allowed |-> FALSE, action |-> "deny", reason |-> "Gate configured to deny"]
      [] action = "approve" /\ interactive ->
           \* prompt_for_approval, lines 198-200: no terminal, False
           [allowed |-> FALSE, action |-> "approve", reason |-> "User denied"]
      [] action = "approve" /\ ~interactive ->
           [allowed |-> FALSE, action |-> "approve",
            reason |-> "Approval required but running non-interactively"]
      [] OTHER ->
           [allowed |-> FALSE, action |-> "approve", reason |-> "Unknown gate action"]

\* check_gate, lines 82-178: a call. It returns with its row written,
\* unless the action is approve, the call is interactive and stdin is a
\* terminal: then it waits at the prompt of line 206.
CheckGate(gate, path, interactive) ==
    /\ gkpc = "idle"
    /\ gh.returned < MaxCalls
    /\ LET action == GateActionOf(gate, path)
           request == [gate |-> gate, action |-> action, timestamp |-> now]
       IN
       /\ gcall' = [gate |-> gate, path |-> path, interactive |-> interactive]
       /\ gate_action' = action
       /\ timestamp' = now
       /\ IF action = "approve" /\ interactive /\ isatty
          THEN /\ gkpc' = "prompt"
               /\ result' = NoResult
               /\ gh' = [gh EXCEPT !.response = "none"]
               /\ UNCHANGED audit_log
          ELSE /\ gkpc' = "idle"
               /\ result' = ResultOf(action, interactive)
               /\ audit_log' = log_gate_event(request, ResultOf(action, interactive))
               /\ gh' = [response |-> "none", returned |-> gh.returned + 1]
    /\ UNCHANGED <<gate_config, isatty, now>>
    /\ GateFrame

\* prompt_for_approval, lines 202-210, and check_gate, lines 150-156 and
\* 175-178: the user's line is read, the result made, the row written.
PromptAnswered(response) ==
    /\ gkpc = "prompt"
    /\ LET approved == response # "EOF" /\ StripLower(response) \in {"y", "yes"}
           res == [allowed |-> approved, action |-> "approve",
                   reason |-> IF approved THEN "User approved" ELSE "User denied"]
           request == [gate |-> gcall.gate, action |-> gate_action,
                       timestamp |-> timestamp]
       IN /\ result' = res
          /\ audit_log' = log_gate_event(request, res)
    /\ gkpc' = "idle"
    /\ gh' = [response |-> response, returned |-> gh.returned + 1]
    /\ UNCHANGED <<gate_config, isatty, now, gcall, gate_action, timestamp>>
    /\ GateFrame

\* Time passes.
GateTick ==
    /\ now < MaxTime
    /\ now' = now + 1
    /\ UNCHANGED <<gate_config, isatty, audit_log, gcall, gate_action, timestamp,
                   result, gkpc, gh>>
    /\ GateFrame

GateNext ==
    \/ \E gate \in {"file_delete", "git_force_push", "deploy"},
          path \in ContextPaths \cup {NoPath},
          interactive \in BOOLEAN : CheckGate(gate, path, interactive)
    \/ \E response \in Responses : PromptAnswered(response)
    \/ GateTick

\* ================================================================ Part U
\* src/tools/undo/undod.py: FileChangeHandler, UndoDaemon.record_change and
\* _cmd_restore, UndoDatabase.backup_file and restore_file, for one watched
\* path that no exclude pattern matches.

\* DaemonConfig.debounce_ms, in ticks of the clock.
debounce == 2

Absent == "absent"
\* What the file may hold; "big" stands for bytes over max_file_size.
Contents == {"hello", "world", "big"}
TooLarge(content) == content = "big"

NoTime == -1
NoHash == "None"

\* hashlib.sha256(content).hexdigest()[:16]: the names of the contents of
\* the model, one for each.
Sha256Prefix(content) ==
    CASE content = "hello" -> "2cf24dba5fb0a30e"
      [] content = "world" -> "486ea46224d1bb4f"
      [] OTHER -> "6a3bb1a5e2c0f7d9"

\* The timers there can be.
Timers == [at : 0..(MaxClock + debounce), type : {"create", "edit", "delete"}]

NewUndoHistory ==
    [lastEvent |-> NoTime,  \* when the last event on the path arrived
     oneBurst |-> TRUE,     \* every event so far came less than debounce
                            \* after the one before it
     events |-> 0,          \* events and commands so far
     lastRestore |-> 0]     \* the entry of the last restore command, the
                            \* file untouched since (0: none)

UndoIdle ==
    /\ ufile = Absent
    /\ backups = {}
    /\ entries = <<>>
    /\ pending_changes = NoTime
    /\ timers = {}
    /\ uclock = 0
    /\ uh = NewUndoHistory

\* The daemon watches; the file is there or not.
UndoStart ==
    /\ ufile \in {Absent, "hello", "big"}
    /\ backups = {}
    /\ entries = <<>>
    /\ pending_changes = NoTime
    /\ timers = {}
    /\ uclock = 0
    /\ uh = NewUndoHistory

\* UndoDatabase.backup_file, lines 170-185: the backup directory after the
\* bytes were saved under their hash, unless a file of that name is there.
backup_file(content) ==
    LET file_hash == Sha256Prefix(content) IN
    IF \E b \in backups : b.name = file_hash
    THEN backups
    ELSE backups \cup {[name |-> file_hash, bytes |-> content]}

\* UndoDaemon.record_change, lines 495-535.
record_change(change_type) ==
    IF ufile # Absent /\ TooLarge(ufile)
    THEN UNCHANGED <<backups, entries>>
    ELSE LET saved == change_type # "delete" /\ ufile # Absent IN
         /\ backups' = IF saved THEN backup_file(ufile) ELSE backups
         /\ entries' = Append(entries,
                [id |-> Len(entries) + 1,
                 change_type |-> change_type,
                 backup_hash |-> IF saved THEN Sha256Prefix(ufile) ELSE NoHash,
                 at |-> uclock,
                 bytes |-> ufile])

\* FileChangeHandler._queue_change, lines 260-273: the time of the change is
\* noted and a timer started.
queue_change(event_type, restored) ==
    /\ pending_changes' = uclock
    /\ timers' = timers \cup {[at |-> uclock + debounce, type |-> event_type]}
    /\ uh' = [lastEvent |-> uclock,
              oneBurst |-> uh.oneBurst /\ (uh.lastEvent = NoTime
                                           \/ uclock - uh.lastEvent < debounce),
              events |-> uh.events + 1,
              lastRestore |-> restored]

\* The file is written: on_created or on_modified, lines 289-295.
FileWritten(content) ==
    /\ uh.events < MaxEvents
    /\ ufile # content
    /\ ufile' = content
    /\ queue_change(IF ufile = Absent THEN "create" ELSE "edit", 0)
    /\ UNCHANGED <<backups, entries, uclock>>
    /\ UndoFrame

\* The file is deleted: on_deleted, lines 297-299.
FileDeleted ==
    /\ uh.events < MaxEvents
    /\ ufile # Absent
    /\ ufile' = Absent
    /\ queue_change("delete", 0)
    /\ UNCHANGED <<backups, entries, uclock>>
    /\ UndoFrame

\* _process_change without the test of line 282: every timer records.
ProcessChange_NoDebounceCheck(timer) ==
    /\ timer \in timers
    /\ timer.at <= uclock
    /\ timers' = timers \ {timer}
    /\ IF pending_changes = NoTime
       THEN UNCHANGED <<pending_changes, backups, entries>>
       ELSE /\ pending_changes' = NoTime
            /\ record_change(timer.type)
    /\ UNCHANGED <<ufile, uclock, uh>>
    /\ UndoFrame

\* FileChangeHandler._process_change, lines 275-287: a timer runs.
ProcessChange(timer) ==
    /\ timer \in timers
    /\ timer.at <= uclock
    /\ timers' = timers \ {timer}
    /\ IF pending_changes = NoTime \/ uclock - pending_changes < debounce
       THEN UNCHANGED <<pending_changes, backups, entries>>
       ELSE /\ pending_changes' = NoTime
            /\ record_change(timer.type)
    /\ UNCHANGED <<ufile, uclock, uh>>
    /\ UndoFrame

\* UndoDaemon._cmd_restore, lines 478-489, with UndoDatabase.restore_file,
\* lines 187-199; the write is a change of the watched file like any other.
Restore(i) ==
    /\ uh.events < MaxEvents
    /\ i \in DOMAIN entries
    /\ LET entry == entries[i] IN
       IF entry.backup_hash = NoHash
             \/ ~\E b \in backups : b.name = entry.backup_hash
       THEN /\ uh' = [uh EXCEPT !.events = @ + 1, !.lastRestore = i]
            /\ UNCHANGED <<ufile, pending_changes, timers>>
       ELSE LET b == CHOOSE b \in backups : b.name = entry.backup_hash IN
            /\ ufile' = b.bytes
            /\ queue_change(IF ufile = Absent THEN "create" ELSE "edit", i)
    /\ UNCHANGED <<backups, entries, uclock>>
    /\ UndoFrame

\* Time passes once the timers that are due have run.
UndoTick ==
    /\ uclock < MaxClock
    /\ \A timer \in timers : timer.at > uclock
    /\ uclock' = uclock + 1
    /\ UNCHANGED <<ufile, backups, entries, pending_changes, timers, uh>>
    /\ UndoFrame

UndoNext ==
    \/ \E content \in Contents : FileWritten(content)
    \/ FileDeleted
    \/ \E timer \in Timers : ProcessChange(timer)
    \/ \E i \in 1..MaxEvents : Restore(i)
    \/ UndoTick

\* ================================================================ Part B
\* src/daedalos-tools/loop/lib/bestofn.py: run_best_of_n and score_result,
\* with what Loop.run (src/tools/loop/lib/state.py, lines 300-348) hands
\* back for each branch.

\* n of run_best_of_n, and its max_iterations (the default of line 124).
NumBranches == 3
max_iterations_default == 10
\* Lines a branch's staged diff --stat may have.
MaxLines == 1

Branches == 0..(NumBranches - 1)
ItemNames == {"f", "g", ".git"}
\* A directory that is not there has no items.
Removed == [item \in ItemNames |-> Absent]
NoBest == [winner |-> -1, total_iterations |-> 0, selected |-> FALSE]

\* The main working directory before the run.
OriginalDir == [item \in ItemNames |->
                   IF item = ".git" THEN "history" ELSE "orig"]

\* Lines 155-186: a branch's work directory is a copy of the main one
\* without .git, with a repository of its own.
BranchCopy == [OriginalDir EXCEPT ![".git"] = "branch history"]

\* What the agent leaves in branch b's directory: f rewritten, g deleted.
EditOf(b) == CASE b = 0 -> "edit0" [] b = 1 -> "edit1" [] OTHER -> "edit2"
AgentDir(b) == [BranchCopy EXCEPT !["f"] = EditOf(b), !["g"] = Absent]

\* Loop.run, lines 300-348: what it returns and state.current_iteration
\* then: the promise already met (308-310), the initial checkpoint failed
\* (313-321), the promise met in iteration k (340-343), or max_iterations
\* reached (345-348); or an exception leaves run_branch.
IterationsUsed == {1, max_iterations_default}
LoopOutcomes ==
    {[raised |-> FALSE, success |-> TRUE, iterations_used |-> 0],
     [raised |-> FALSE, success |-> FALSE, iterations_used |-> 0],
     [raised |-> FALSE, success |-> FALSE,
      iterations_used |-> max_iterations_default],
     [raised |-> TRUE, success |-> FALSE, iterations_used |-> 0]}
    \cup {[raised |-> FALSE, success |-> TRUE, iterations_used |-> k] :
             k \in IterationsUsed}
CoveragePcts == {0, 80}

\* score_result, lines 49-114, counted in halves (twice the score of the
\* code, whose terms are multiples of 0.5 here).
score_result(promise_met, iterations_used, lines_changed, pct) ==
    (IF promise_met THEN 200 ELSE 0)
    + 2 * ((max_iterations_default - iterations_used) * 10)
    - lines_changed
    + pct

\* results.sort(key=lambda r: r.score, reverse=True), line 259: a stable
\* sort, equal scores keep the order of the list.
RECURSIVE InsertByScore(_, _)
InsertByScore(sorted, r) ==
    IF sorted = <<>> THEN <<r>>
    ELSE IF Head(sorted).score >= r.score
         THEN <<Head(sorted)>> \o InsertByScore(Tail(sorted), r)
         ELSE <<r>> \o sorted

RECURSIVE SortByScore(_)
SortByScore(rs) ==
    IF rs = <<>> THEN <<>>
    ELSE InsertByScore(SortByScore(SubSeq(rs, 1, Len(rs) - 1)), rs[Len(rs)])

RECURSIVE SumIterations(_)
SumIterations(rs) ==
    IF rs = <<>> THEN 0
    ELSE Head(rs).iterations_used + SumIterations(Tail(rs))

BestIdle ==
    /\ selection_mode = "auto"
    /\ working_dir = OriginalDir
    /\ branch_dirs = [b \in Branches |-> Removed]
    /\ results = <<>>
    /\ best = NoBest
    /\ bpc = "idle"

\* run_best_of_n is called.
BestStart ==
    /\ selection_mode \in {"auto", "manual"}
    /\ working_dir = OriginalDir
    /\ branch_dirs = [b \in Branches |-> Removed]
    /\ results = <<>>
    /\ best = NoBest
    /\ bpc = "start"

\* Lines 149-186: the branch directories are made.
CreateBranches ==
    /\ bpc = "start"
    /\ branch_dirs' = [b \in Branches |-> BranchCopy]
    /\ bpc' = "running"
    /\ UNCHANGED <<selection_mode, working_dir, results, best>>
    /\ BestFrame

\* Lines 228-248: a branch's future completes, in whatever order; its
\* result is scored and appended, or the failed result of line 240 is.
BranchComplete(b, outcome, lines_changed, pct) ==
    /\ bpc = "running"
    /\ \A i \in DOMAIN results : results[i].branch_id # b
    /\ outcome \in LoopOutcomes
    /\ IF outcome.raised
       THEN /\ lines_changed = 0
            /\ pct = 0
            /\ results' = Append(results,
                                 [branch_id |-> b,
                                  success |-> FALSE,
                                  iterations_used |-> 0,
                                  score |-> -2000,
                                  metrics |-> [error |-> TRUE,
                                               lines_changed |-> 0,
                                               coverage_pct |-> 0]])
       ELSE results' = Append(results,
                              [branch_id |-> b,
                               success |-> outcome.success,
                               iterations_used |-> outcome.iterations_used,
                               score |-> score_result(outcome.success,
                                                      outcome.iterations_used,
                                                      lines_changed, pct),
                               metrics |-> [error |-> FALSE,
                                            lines_changed |-> lines_changed,
                                            coverage_pct |-> pct]])
    /\ branch_dirs' = [branch_dirs EXCEPT ![b] = AgentDir(b)]
    /\ UNCHANGED <<selection_mode, working_dir, best, bpc>>
    /\ BestFrame

\* Lines 272-281: the items of the winner's directory but .git are copied
\* onto the main directory; what the winner does not have stays.
CopyBack(main, dir) ==
    [item \in ItemNames |->
        IF item # ".git" /\ dir[item] # Absent THEN dir[item] ELSE main[item]]

\* run_best_of_n without the test of line 265: the copy runs in manual
\* mode too.
Select_CopiesInManual ==
    /\ bpc = "running"
    /\ Len(results) = NumBranches
    /\ LET sorted == SortByScore(results)
           winner == sorted[1]
           applies == /\ winner.success
                      /\ branch_dirs[winner.branch_id] # Removed
       IN /\ results' = sorted
          /\ working_dir' = IF applies
                            THEN CopyBack(working_dir,
                                          branch_dirs[winner.branch_id])
                            ELSE working_dir
          /\ branch_dirs' = [b \in Branches |->
                                IF b # winner.branch_id THEN Removed
                                ELSE branch_dirs[b]]
          /\ best' = [winner |-> winner.branch_id,
                      total_iterations |-> SumIterations(sorted),
                      selected |-> applies]
    /\ bpc' = "done"
    /\ UNCHANGED selection_mode
    /\ BestFrame

\* Lines 250-305, every future done: sort, pick results[0], copy it back
\* in automatic mode if it succeeded, remove the other branches, return.
Select ==
    /\ bpc = "running"
    /\ Len(results) = NumBranches
    /\ LET sorted == SortByScore(results)
           winner == sorted[1]
           applies == /\ selection_mode # "manual"
                      /\ winner.success
                      /\ branch_dirs[winner.branch_id] # Removed
       IN /\ results' = sorted
          /\ working_dir' = IF applies
                            THEN CopyBack(working_dir,
                                          branch_dirs[winner.branch_id])
                            ELSE working_dir
          /\ branch_dirs' = [b \in Branches |->
                                IF b # winner.branch_id THEN Removed
                                ELSE branch_dirs[b]]
          /\ best' = [winner |-> winner.branch_id,
                      total_iterations |-> SumIterations(sorted),
                      selected |-> applies]
    /\ bpc' = "done"
    /\ UNCHANGED selection_mode
    /\ BestFrame

BestNext ==
    \/ CreateBranches
    \/ \E b \in Branches, outcome \in LoopOutcomes,
          lines_changed \in 0..MaxLines, pct \in CoveragePcts :
          BranchComplete(b, outcome, lines_changed, pct)
    \/ Select

\* ================================================================ Part W
\* src/daedalos-tools/loop/lib/workspace.py: Workspace.register_subagent,
\* update_subagent and record_subagent_iteration; src/tools/loop/lib/
\* subagent.py: Subagent.run, one thread for each task of run_parallel.

\* Tasks of one phase, and SubagentTask.max_iterations.
NumSubagents == 2
MaxSubIter == 2

SubIds == 1..NumSubagents
SubagentStatus == {"pending", "running", "completed", "failed", "cancelled"}
NoRecord == [status |-> "none", started_at |-> FALSE, finished_at |-> FALSE]
IdleThread == [pc |-> "idle", iterations |-> 0, read |-> 0]

WorkIdle ==
    /\ subagents = [id \in SubIds |-> NoRecord]
    /\ total_subagent_iterations = 0
    /\ sub = [id \in SubIds |-> IdleThread]

\* Workspace.register_subagent, lines 324-345.
register_subagent(id) ==
    [subagents EXCEPT ![id] = [status |-> "pending",
                               started_at |-> FALSE,
                               finished_at |-> FALSE]]

\* Workspace.update_subagent, lines 347-381, with a status.
update_subagent(id, status) ==
    IF subagents[id] = NoRecord THEN subagents
    ELSE [subagents EXCEPT
             ![id] = [status |-> status,
                      started_at |-> IF status = "running" THEN TRUE
                                     ELSE @.started_at,
                      finished_at |-> IF status \in {"completed", "failed"}
                                      THEN TRUE ELSE @.finished_at]]

\* A caller of the workspace registers a subagent.
RegisterCall(id) ==
    /\ sub[id].pc = "idle"
    /\ subagents' = register_subagent(id)
    /\ UNCHANGED <<total_subagent_iterations, sub>>
    /\ WorkFrame

\* A caller of the workspace updates a subagent's status.
UpdateCall(id, status) ==
    /\ sub[id].pc = "idle"
    /\ subagents' = update_subagent(id, status)
    /\ UNCHANGED <<total_subagent_iterations, sub>>
    /\ WorkFrame

WorkCallsNext ==
    \/ \E id \in SubIds : RegisterCall(id)
    \/ \E id \in SubIds, status \in SubagentStatus : UpdateCall(id, status)

\* Orchestrator._run_phase, lines 323-328, then run_parallel, lines
\* 423-427: every task registered, its thread about to call Subagent.run.
SubagentsStart ==
    /\ subagents = [id \in SubIds |-> [status |-> "pending",
                                       started_at |-> FALSE,
                                       finished_at |-> FALSE]]
    /\ total_subagent_iterations = 0
    /\ sub = [id \in SubIds |-> [pc |-> "run", iterations |-> 0, read |-> 0]]

\* Subagent.run, lines 257-263.
RunBegin(id) ==
    /\ sub[id].pc = "run"
    /\ subagents' = update_subagent(id, "running")
    /\ sub' = [sub EXCEPT ![id].pc = "verify"]
    /\ UNCHANGED total_subagent_iterations
    /\ WorkFrame

\* Lines 266-282: the promise is met already, or the loop is entered.
RunVerifyFirst(id, met) ==
    /\ sub[id].pc = "verify"
    /\ IF met
       THEN /\ subagents' = update_subagent(id, "completed")
            /\ sub' = [sub EXCEPT ![id].pc = "done"]
       ELSE /\ sub' = [sub EXCEPT ![id].pc = "loop"]
            /\ UNCHANGED subagents
    /\ UNCHANGED total_subagent_iterations
    /\ WorkFrame

\* Lines 287-288 and 340-357: the next iteration is counted, or
\* max_iterations is reached and the record is failed.
IterationBegin(id) ==
    /\ sub[id].pc = "loop"
    /\ IF sub[id].iterations < MaxSubIter
       THEN /\ sub' = [sub EXCEPT ![id].iterations = @ + 1,
                                  ![id].pc = "record"]
            /\ UNCHANGED subagents
       ELSE /\ subagents' = update_subagent(id, "failed")
            /\ sub' = [sub EXCEPT ![id].pc = "done"]
    /\ UNCHANGED total_subagent_iterations
    /\ WorkFrame

\* record_subagent_iteration, line 506, its read: += on an attribute loads
\* the value, adds, then stores, and no lock is held.
RecordRead(id) ==
    /\ sub[id].pc = "record"
    /\ sub' = [sub EXCEPT ![id].read = total_subagent_iterations,
                          ![id].pc = "store"]
    /\ UNCHANGED <<subagents, total_subagent_iterations>>
    /\ WorkFrame

\* record_subagent_iteration, lines 506-507: the store, and the save.
RecordStore(id) ==
    /\ sub[id].pc = "store"
    /\ total_subagent_iterations' = sub[id].read + 1
    /\ sub' = [sub EXCEPT ![id].pc = "agent", ![id].read = 0]
    /\ UNCHANGED subagents
    /\ WorkFrame

\* Lines 291-338: the agent runs, the promise is checked.
IterationEnd(id, met) ==
    /\ sub[id].pc = "agent"
    /\ IF met
       THEN /\ subagents' = update_subagent(id, "completed")
            /\ sub' = [sub EXCEPT ![id].pc = "done"]
       ELSE /\ sub' = [sub EXCEPT ![id].pc = "loop"]
            /\ UNCHANGED subagents
    /\ UNCHANGED total_subagent_iterations
    /\ WorkFrame

SubagentsNext ==
    \/ \E id \in SubIds : RunBegin(id)
    \/ \E id \in SubIds, met \in BOOLEAN : RunVerifyFirst(id, met)
    \/ \E id \in SubIds : IterationBegin(id)
    \/ \E id \in SubIds : RecordRead(id)
    \/ \E id \in SubIds : RecordStore(id)
    \/ \E id \in SubIds, met \in BOOLEAN : IterationEnd(id, met)

\* ================================================================ Part V
\* src/tools/loop/lib/promise.py: verify_promise.

\* Exit codes, seconds a command may run, and timeouts tried.
MaxExit == 2
MaxDuration == 3
MaxTimeout == 2

\* returncode of a child a signal ended (SIGKILL).
SignalCode == -9

ExitCodes == (0..MaxExit) \cup {SignalCode}
\* A command: whether subprocess.run can start it (the shell is there, cwd
\* is a directory), how long it runs and what it exits with.
Commands == [spawns : BOOLEAN, duration : 0..MaxDuration, code : ExitCodes]
NoCommand == [spawns |-> FALSE, duration |-> 0, code |-> 0]
NoOutcome == [kind |-> "none", code |-> 0]

PromiseIdle ==
    /\ pv_command = NoCommand
    /\ pv_timeout = 0
    /\ pv_elapsed = 0
    /\ pv_outcome = NoOutcome
    /\ pv_result = "none"
    /\ pv_pc = "idle"

\* verify_promise(command, working_dir, timeout) is called.
PromiseStart ==
    /\ pv_command \in Commands
    /\ pv_timeout \in 1..MaxTimeout
    /\ pv_elapsed = 0
    /\ pv_outcome = NoOutcome
    /\ pv_result = "none"
    /\ pv_pc = "call"

\* verify_promise with TimeoutExpired taken for success.
verify_promise_TimeoutPasses(outcome) ==
    CASE outcome.kind = "exit" -> outcome.code = 0
      [] outcome.kind = "timeout" -> TRUE
      [] OTHER -> FALSE

\* Lines 44-57: returncode == 0 of a run that ended; False from either
\* except clause.
verify_promise(outcome) ==
    CASE outcome.kind = "exit" -> outcome.code = 0
      [] outcome.kind = "timeout" -> FALSE
      [] OTHER -> FALSE

\* verify_promise returns.
PromiseReturn(outcome) ==
    /\ pv_outcome' = outcome
    /\ pv_result' = IF verify_promise(outcome) THEN "True" ELSE "False"
    /\ pv_pc' = "returned"

\* Line 45: subprocess.run starts the child, or raises.
PromiseSpawn ==
    /\ pv_pc = "call"
    /\ IF pv_command.spawns
       THEN /\ pv_pc' = "running"
            /\ UNCHANGED <<pv_outcome, pv_result>>
       ELSE PromiseReturn([kind |-> "error", code |-> 0])
    /\ UNCHANGED <<pv_command, pv_timeout, pv_elapsed>>
    /\ PromiseFrame

\* A second passes with the child running and the timeout not reached.
PromiseTick ==
    /\ pv_pc = "running"
    /\ pv_elapsed < pv_command.duration
    /\ pv_elapsed < pv_timeout
    /\ pv_elapsed' = pv_elapsed + 1
    /\ UNCHANGED <<pv_command, pv_timeout, pv_outcome, pv_result, pv_pc>>
    /\ PromiseFrame

\* Lines 45-53: the child exits within the timeout.
PromiseExit ==
    /\ pv_pc = "running"
    /\ pv_elapsed = pv_command.duration
    /\ PromiseReturn([kind |-> "exit", code |-> pv_command.code])
    /\ UNCHANGED <<pv_command, pv_timeout, pv_elapsed>>
    /\ PromiseFrame

\* Lines 54-55: the timeout is reached with the child running;
\* subprocess.run kills it and raises TimeoutExpired.
PromiseTimeout ==
    /\ pv_pc = "running"
    /\ pv_elapsed = pv_timeout
    /\ pv_elapsed < pv_command.duration
    /\ PromiseReturn([kind |-> "timeout", code |-> 0])
    /\ UNCHANGED <<pv_command, pv_timeout, pv_elapsed>>
    /\ PromiseFrame

PromiseNext ==
    \/ PromiseSpawn
    \/ PromiseTick
    \/ PromiseExit
    \/ PromiseTimeout

\* ================================================================ Part C
\* src/tools/loop/lib/checkpoint.py: create and restore of BtrfsCheckpoint,
\* GitCheckpoint and NoneCheckpoint, on one working directory, with the
\* edits and stashes of the user in between.

\* Entries git's stash may hold.
MaxStash == 2

Backends == {"btrfs", "git", "none"}
CheckpointIds == {"cp1", "cp2"}
\* The working directory: for git its uncommitted changes (Clean: none);
\* for btrfs its content, Gone once the subvolume is deleted.
Clean == "clean"
Gone == "gone"
Changes == {"w1", "w2"}
NoPoint == "no checkpoint"
NoReturn == [op |-> "none", value |-> "none"]
\* The command of a call that fails for a reason outside the model (a full
\* disk, a lock held, a busy subvolume).
Faults == {"none", "delete", "snapshot", "branch", "checkout"}

CheckpointIdle ==
    /\ ck_backend = "none"
    /\ ck_dir = Clean
    /\ ck_stash = <<>>
    /\ ck_points = [id \in CheckpointIds |-> NoPoint]
    /\ ck_ret = NoReturn
    /\ ck_before = Clean

\* get_backend, lines 388-409, and a working directory with or without
\* changes.
CheckpointStart ==
    /\ ck_backend \in Backends
    /\ ck_dir \in Changes \cup {Clean}
    /\ ck_stash = <<>>
    /\ ck_points = [id \in CheckpointIds |-> NoPoint]
    /\ ck_ret = NoReturn
    /\ ck_before = ck_dir

\* The user (or the agent) edits the working directory.
UserEdit(w) ==
    /\ w # ck_dir
    /\ ck_dir # Gone
    /\ ck_dir' = w
    /\ ck_ret' = NoReturn
    /\ ck_before' = w
    /\ UNCHANGED <<ck_backend, ck_stash, ck_points>>
    /\ CheckpointFrame

\* The user runs git stash on changes of their own.
UserStash ==
    /\ ck_backend = "git"
    /\ ck_dir \in Changes
    /\ Len(ck_stash) < MaxStash
    /\ ck_stash' = <<ck_dir>> \o ck_stash
    /\ ck_dir' = Clean
    /\ ck_ret' = NoReturn
    /\ ck_before' = Clean
    /\ UNCHANGED <<ck_backend, ck_points>>
    /\ CheckpointFrame

\* git stash push: the changes go on the stash and the tree is clean; with
\* no local changes nothing is pushed.
StashPush(dir, stash) ==
    IF dir \in Changes THEN [dir |-> Clean, stash |-> <<dir>> \o stash]
    ELSE [dir |-> dir, stash |-> stash]

\* git stash pop on a clean tree: the latest entry, whoever pushed it, is
\* applied and dropped; with an empty stash nothing happens.
StashPop(dir, stash) ==
    IF stash = <<>> THEN [dir |-> dir, stash |-> stash]
    ELSE [dir |-> Head(stash), stash |-> Tail(stash)]

\* BtrfsCheckpoint.create, lines 104-129.
BtrfsCreate(id, fault) ==
    /\ ck_backend = "btrfs"
    /\ ck_dir # Gone
    /\ IF fault = "snapshot" \/ ck_points[id] # NoPoint
       THEN /\ ck_ret' = [op |-> "create", value |-> "raised"]
            /\ UNCHANGED ck_points
       ELSE /\ ck_ret' = [op |-> "create", value |-> id]
            /\ ck_points' = [ck_points EXCEPT ![id] = ck_dir]
    /\ ck_before' = ck_dir
    /\ UNCHANGED <<ck_backend, ck_dir, ck_stash>>
    /\ CheckpointFrame

\* BtrfsCheckpoint.restore, lines 131-165.
BtrfsRestore(id, fault) ==
    /\ ck_backend = "btrfs"
    /\ ck_dir # Gone
    /\ IF ck_points[id] = NoPoint \/ fault = "delete"
       THEN /\ ck_ret' = [op |-> "restore", value |-> "False"]
            /\ UNCHANGED ck_dir
       ELSE IF fault = "snapshot"
       THEN /\ ck_ret' = [op |-> "restore", value |-> "False"]
            /\ ck_dir' = Gone
       ELSE /\ ck_ret' = [op |-> "restore", value |-> "True"]
            /\ ck_dir' = ck_points[id]
    /\ ck_before' = ck_dir
    /\ UNCHANGED <<ck_backend, ck_stash, ck_points>>
    /\ CheckpointFrame

\* GitCheckpoint.create, lines 239-264.
GitCreate(id, fault) ==
    /\ ck_backend = "git"
    /\ ck_dir \in Changes => Len(ck_stash) < MaxStash
    /\ LET pushed == StashPush(ck_dir, ck_stash)
           had_changes == ck_dir \in Changes
       IN IF fault = "branch" \/ ck_points[id] # NoPoint
          THEN /\ ck_ret' = [op |-> "create", value |-> "raised"]
               /\ ck_dir' = pushed.dir
               /\ ck_stash' = pushed.stash
               /\ UNCHANGED ck_points
          ELSE /\ ck_ret' = [op |-> "create", value |-> id]
               /\ ck_points' = [ck_points EXCEPT ![id] = "HEAD"]
               /\ IF had_changes
                  THEN /\ ck_dir' = StashPop(pushed.dir, pushed.stash).dir
                       /\ ck_stash' = StashPop(pushed.dir, pushed.stash).stash
                  ELSE /\ ck_dir' = pushed.dir
                       /\ ck_stash' = pushed.stash
    /\ ck_before' = ck_dir
    /\ UNCHANGED ck_backend
    /\ CheckpointFrame

\* GitCheckpoint.restore, lines 266-287.
GitRestore(id, fault) ==
    /\ ck_backend = "git"
    /\ ck_dir \in Changes => Len(ck_stash) < MaxStash
    /\ LET pushed == StashPush(ck_dir, ck_stash)
       IN IF fault = "checkout" \/ ck_points[id] = NoPoint
          THEN /\ ck_ret' = [op |-> "restore", value |-> "False"]
               /\ ck_dir' = StashPop(pushed.dir, pushed.stash).dir
               /\ ck_stash' = StashPop(pushed.dir, pushed.stash).stash
          ELSE /\ ck_ret' = [op |-> "restore", value |-> "True"]
               /\ ck_dir' = pushed.dir
               /\ ck_stash' = pushed.stash
    /\ ck_before' = ck_dir
    /\ UNCHANGED <<ck_backend, ck_points>>
    /\ CheckpointFrame

\* NoneCheckpoint.create, lines 336-338.
NoneCreate(id) ==
    /\ ck_backend = "none"
    /\ ck_ret' = [op |-> "create", value |-> id]
    /\ ck_before' = ck_dir
    /\ UNCHANGED <<ck_backend, ck_dir, ck_stash, ck_points>>
    /\ CheckpointFrame

\* NoneCheckpoint.restore, lines 340-342.
NoneRestore(id) ==
    /\ ck_backend = "none"
    /\ ck_ret' = [op |-> "restore", value |-> "False"]
    /\ ck_before' = ck_dir
    /\ UNCHANGED <<ck_backend, ck_dir, ck_stash, ck_points>>
    /\ CheckpointFrame

CheckpointNext ==
    \/ \E w \in Changes \cup {Clean} : UserEdit(w)
    \/ UserStash
    \/ \E id \in CheckpointIds, fault \in Faults : BtrfsCreate(id, fault)
    \/ \E id \in CheckpointIds, fault \in Faults : BtrfsRestore(id, fault)
    \/ \E id \in CheckpointIds, fault \in Faults : GitCreate(id, fault)
    \/ \E id \in CheckpointIds, fault \in Faults : GitRestore(id, fault)
    \/ \E id \in CheckpointIds : NoneCreate(id)
    \/ \E id \in CheckpointIds : NoneRestore(id)

\* ======================================================== specifications
LoopInit == LoopStart /\ RpcIdle /\ HubIdle /\ PoolIdle /\ RouteIdle /\ ConfigIdle /\ GateIdle /\ UndoIdle /\ BestIdle /\ WorkIdle /\ PromiseIdle /\ CheckpointIdle
SpecLoop == LoopInit /\ [][LoopNext]_vars

\* The loop with a deterministic agent and promise.
ResumeInit == LoopStartDeterministic /\ RpcIdle /\ HubIdle /\ PoolIdle /\ RouteIdle /\ ConfigIdle /\ GateIdle /\ UndoIdle /\ BestIdle /\ WorkIdle /\ PromiseIdle /\ CheckpointIdle
SpecResume == ResumeInit /\ [][LoopNext]_vars

RpcInit == RpcStart /\ LoopIdle /\ HubIdle /\ PoolIdle /\ RouteIdle /\ ConfigIdle /\ GateIdle /\ UndoIdle /\ BestIdle /\ WorkIdle /\ PromiseIdle /\ CheckpointIdle
SpecRpc == RpcInit /\ [][RpcNext]_vars

HubInit == HubStart /\ LoopIdle /\ RpcIdle /\ PoolIdle /\ RouteIdle /\ ConfigIdle /\ GateIdle /\ UndoIdle /\ BestIdle /\ WorkIdle /\ PromiseIdle /\ CheckpointIdle
SpecHub == HubInit /\ [][HubNext]_vars

\* The hub some time after its start: the server runs.
HubRunningInit == HubRunning /\ LoopIdle /\ RpcIdle /\ PoolIdle /\ RouteIdle /\ ConfigIdle /\ GateIdle /\ UndoIdle /\ BestIdle /\ WorkIdle /\ PromiseIdle /\ CheckpointIdle
SpecHubRunning == HubRunningInit /\ [][HubNext]_vars

PoolInit == PoolStart /\ LoopIdle /\ RpcIdle /\ HubIdle /\ RouteIdle /\ ConfigIdle /\ GateIdle /\ UndoIdle /\ BestIdle /\ WorkIdle /\ PromiseIdle /\ CheckpointIdle
SpecPool == PoolInit /\ [][PoolNext]_vars

RouteInit == RouteStart /\ LoopIdle /\ RpcIdle /\ HubIdle /\ PoolIdle /\ ConfigIdle /\ GateIdle /\ UndoIdle /\ BestIdle /\ WorkIdle /\ PromiseIdle /\ CheckpointIdle
SpecRoute == RouteInit /\ [][RouteNext]_vars

ConfigInit == ConfigStart /\ LoopIdle /\ RpcIdle /\ HubIdle /\ PoolIdle /\ RouteIdle /\ GateIdle /\ UndoIdle /\ BestIdle /\ WorkIdle /\ PromiseIdle /\ CheckpointIdle
SpecConfig == ConfigInit /\ [][ConfigNext]_vars

GateInit == GateStart /\ LoopIdle /\ RpcIdle /\ HubIdle /\ PoolIdle /\ RouteIdle /\ ConfigIdle /\ UndoIdle /\ BestIdle /\ WorkIdle /\ PromiseIdle /\ CheckpointIdle
SpecGate == GateInit /\ [][GateNext]_vars

UndoInit == UndoStart /\ LoopIdle /\ RpcIdle /\ HubIdle /\ PoolIdle /\ RouteIdle /\ ConfigIdle /\ GateIdle /\ BestIdle /\ WorkIdle /\ PromiseIdle /\ CheckpointIdle
SpecUndo == UndoInit /\ [][UndoNext]_vars

BestInit == BestStart /\ LoopIdle /\ RpcIdle /\ HubIdle /\ PoolIdle /\ RouteIdle /\ ConfigIdle /\ GateIdle /\ UndoIdle /\ WorkIdle /\ PromiseIdle /\ CheckpointIdle
SpecBest == BestInit /\ [][BestNext]_vars

WorkCallsInit == WorkIdle /\ LoopIdle /\ RpcIdle /\ HubIdle /\ PoolIdle /\ RouteIdle /\ ConfigIdle /\ GateIdle /\ UndoIdle /\ BestIdle /\ PromiseIdle /\ CheckpointIdle
SpecWorkspace == WorkCallsInit /\ [][WorkCallsNext]_vars

SubagentsInit == SubagentsStart /\ LoopIdle /\ RpcIdle /\ HubIdle /\ PoolIdle /\ RouteIdle /\ ConfigIdle /\ GateIdle /\ UndoIdle /\ BestIdle /\ PromiseIdle /\ CheckpointIdle
SpecSubagents == SubagentsInit /\ [][SubagentsNext]_vars

PromiseInit == PromiseStart /\ LoopIdle /\ RpcIdle /\ HubIdle /\ PoolIdle /\ RouteIdle /\ ConfigIdle /\ GateIdle /\ UndoIdle /\ BestIdle /\ WorkIdle /\ CheckpointIdle
SpecPromise == PromiseInit /\ [][PromiseNext]_vars

CheckpointInit == CheckpointStart /\ LoopIdle /\ RpcIdle /\ HubIdle /\ PoolIdle /\ RouteIdle /\ ConfigIdle /\ GateIdle /\ UndoIdle /\ BestIdle /\ WorkIdle /\ PromiseIdle
SpecCheckpoint == CheckpointInit /\ [][CheckpointNext]_vars

\* ------------------------------------------------------- claims, part L
Rank(s) == IF s = "pending" THEN 0 ELSE IF s \in Terminal THEN 2 ELSE 1

\* C1: over any sequence of run, pause, resume and cancel the status never
\* moves backward along pending -> running <-> paused -> {completed, failed,
\* cancelled}: it never returns to pending, and a completed, failed or
\* cancelled status never changes again.
C1_StatusNeverMovesBackward ==
    [][/\ Rank(state'.status) >= Rank(state.status)
       /\ (state.status \in Terminal => state'.status = state.status)]_vars

\* C2: every state written to the state file has as many iteration records
\* as its current_iteration says.
C2_PersistedIterationsMatchCounter ==
    disk # NoFile => Len(disk.iterations) = disk.current_iteration

\* C3: once another actor has written paused into the state file while run
\* is in its loop, run starts no further iteration and does not overwrite
\* the paused status, until someone writes the status again.
C3_ExternalPauseObserved ==
    [][(lh.extPaused /\ lh'.extPaused) =>
          /\ disk'.status = "paused"
          /\ ~(lpc = "loop" /\ lpc' = "agent")]_vars

\* C4: after cancel() is called inside an iteration, run starts no further
\* iteration, and when it returns it returns False with status cancelled.
C4_CancelDuringRunStops ==
    [][lh'.cancelIter =>
          /\ ~(lpc = "loop" /\ lpc' = "agent")
          /\ (lpc' = "done" => ret' = "False" /\ lh'.retStatus = "cancelled")]_vars

UninterruptedStatus ==
    IF lh.passAt <= max_iterations THEN "completed" ELSE "failed"
UninterruptedIterations ==
    IF lh.passAt <= max_iterations THEN lh.passAt ELSE max_iterations

\* C11: with a deterministic agent and promise, a loop rebuilt by
\* resume_from_state from a state file that records every agent run made so
\* far, and run again (its initial checkpoint created, nobody pausing or
\* cancelling it any more), ends with the status and the number of iteration
\* records of the same loop run without interruption.
C11_ResumeConverges ==
    (/\ lpc = "done" /\ lh.resumed /\ lh.det /\ lh.allRecorded
     /\ ~lh.ctlRun /\ lh.initCkpt # "failed") =>
       /\ lh.retStatus = UninterruptedStatus
       /\ Len(state.iterations) = UninterruptedIterations

C13_AgentTimeoutFailsIteration ==
    \A i \in 1..Len(state.iterations) :
        state.iterations[i].agent_error = "timed out" =>
            ~state.iterations[i].promise_result

\* ------------------------------------------------------- claims, part R
\* C5: a caller that gets a response gets the one whose JSON-RPC id is the id
\* of its own request.
C5_ResponseMatchesRequest ==
    \A t \in Callers :
        (tpc[t] = "done" /\ tres[t] # 0) => tres[t] = treq[t]

\* C6: the response to a request that timed out or was cancelled is never
\* returned as the result of a request sent after that.
C6_LateResponseDiscarded ==
    \A t \in Callers :
        (tpc[t] = "done" /\ tres[t] # 0) => tres[t] \notin tlate[t]

\* ------------------------------------------------------- claims, part H
\* C7: every child the daemon has spawned is referenced by an entry of the
\* server map, or has been terminated and reaped.
C7_NoOrphanChild ==
    \A p \in Procs : proc[p] = "alive" => \E n \in ServerNames : servers[n] = p

\* ------------------------------------------------------- claims, part P
\* C15: the status of a hub server moves only along stopped -> starting,
\* starting -> running, starting -> error, running -> unhealthy and
\* unhealthy -> starting.
C15_StatusEdgesOnly ==
    [][\A p \in Procs :
         srv'[p].status # srv[p].status =>
             <<srv[p].status, srv'[p].status>> \in
                 {<<"stopped", "starting">>, <<"starting", "running">>,
                  <<"starting", "error">>, <<"running", "unhealthy">>,
                  <<"unhealthy", "starting">>}]_vars

\* The health loop turns to _restart_server in this step.
HealthRestartAttempt ==
    /\ task[HealthTask].pc # "restart0"
    /\ task'[HealthTask].pc = "restart0"

\* C16: a server is unhealthy only after MAX_HEALTH_FAILURES failed health
\* checks in a row, a successful check putting the count back to 0, and the
\* health loop tries a restart only of an unhealthy server whose restart
\* count is below MAX_RESTART_ATTEMPTS.
C16_UnhealthyAfterThreeFailures ==
    /\ [](\A p \in Procs :
            /\ srv[p].status = "unhealthy" => hh.streak[p] >= MAX_HEALTH_FAILURES
            /\ srv[p].health_failures = hh.streak[p])
    /\ [][HealthRestartAttempt =>
            LET p == Head(task[HealthTask].q)[2] IN
            /\ srv'[p].status = "unhealthy"
            /\ hh'.streak[p] >= MAX_HEALTH_FAILURES
            /\ srv[p].restart_count < MAX_RESTART_ATTEMPTS]_vars

\* The first child was marked unhealthy and restarted by the health loop; its
\* successor failed three checks in a row at the restart cap and is left
\* unhealthy, with no further restart.
C16_Witness ==
    /\ servers["fs"] = 2
    /\ srv[2].status = "unhealthy"
    /\ srv[2].restart_count = MAX_RESTART_ATTEMPTS
    /\ hh.streak[2] = MAX_HEALTH_FAILURES
    /\ srv[1].status = "unhealthy"
    /\ task[HealthTask].pc = "idle"

C21_UserRestartResetsCount ==
    [][\A t \in Clients :
         (/\ task[t].op = "restart"
          /\ task[t].pc = "return"
          /\ task[t].stack # <<>>
          /\ Head(task[t].stack) = "restart_start"
          /\ task'[t] # task[t]
          /\ task[t].rv
          /\ servers[task[t].name] # 0) =>
             srv'[servers[task[t].name]].restart_count = 0]_vars

\* C14: the pool never holds more servers than max_servers, whatever the
\* interleaving of warm and query requests.
C14_PoolWithinMaxServers ==
    Cardinality(Present) <= pconfig.max_servers

\* C18: when two servers have been warmed one after the other and their two
\* memory estimates together exceed memory_limit_mb, the first is evicted and
\* the second admitted: the pool lists exactly one server, the second, warm.
C18_MemoryCapEvictsOlder ==
    (/\ ph.serial
     /\ \A t \in PoolTasks : ~PBusy(t)
     /\ Len(ph.warmed) = 2
     /\ ph.warmed[1] # ph.warmed[2]
     /\ 2 * memory_estimate_mb > pconfig.memory_limit_mb) =>
        /\ Present = {ph.warmed[2]}
        /\ pool[ph.warmed[2]].status = "warm"

\* C19: the idle-eviction task starts stopping a server only when its
\* last_query is older than idle_timeout.
C19_IdleEvictionOnlyOfIdle ==
    [][\A k \in Keys :
         (/\ ptask[CleanupTask].pc # "stop_wait"
          /\ ptask'[CleanupTask].pc = "stop_wait"
          /\ ptask'[CleanupTask].stopkey = k) =>
             pnow - pool[k].last_query > idle_timeout]_vars


\* ------------------------------------------------------- claims, part T
\* The first record in status running that advertises the tool, from i on;
\* 0 when there is none.
RECURSIVE FirstRunningWithTool(_, _)
FirstRunningWithTool(tool_name, i) ==
    IF i > Len(known) THEN 0
    ELSE IF known[i].status = "running" /\ tool_name \in known[i].tools THEN i
    ELSE FirstRunningWithTool(tool_name, i + 1)

\* C20: a call_tool request with a target server goes to that server; one
\* without goes to the first server in status running that advertises the
\* tool, and is answered with an error when no running server advertises it.
C20_RoutedToFirstRunning ==
    rtpc \in {"sent", "done"} =>
        IF call.server # NoTarget
        THEN ServersGet(call.server) # 0 => sent = call.server
        ELSE LET i == FirstRunningWithTool(call.tool, 1) IN
             IF i = 0
             THEN sent = "" /\ rtpc = "done" /\ ~reply.success
             ELSE sent = known[i].name


\* ------------------------------------------------------- claims, part G
\* C22: for every gate, the action in effect once the project-local config
\* is applied is at least as strict, in the order allow < notify < approve <
\* deny, as the action in effect under the user-global config alone.
C22_ProjectNeverLoosensGate ==
    cfpc = "done" =>
        \A g \in GateNames :
            ActionIndex(get_gate(config, g)) >= ActionIndex(get_gate(global_config, g))

\* C23: the level load_project_config returns is at least as far along
\* SUPERVISION_LEVELS as the level of the user-global config.
C23_ProjectNeverLoosensLevel ==
    cfpc = "done" => LevelIndex(config.level) >= LevelIndex(global_config.level)

\* A project file asking for a looser level than the user's was applied and
\* the user's level stands.
C23_Witness ==
    /\ cfpc = "done"
    /\ project_file.exists
    /\ project_file.level = "autonomous"
    /\ global_config.level = "collaborative"
    /\ config.level = "collaborative"


\* ------------------------------------------------------- claims, part K
\* The rows of the log stay as they are, and a step at which check_gate
\* returns writes one more; Matches(row) is what the row has to be.
AuditStep(Matches(_)) ==
    /\ Len(audit_log') >= Len(audit_log)
    /\ SubSeq(audit_log', 1, Len(audit_log)) = audit_log
    /\ IF gh'.returned = gh.returned + 1
       THEN /\ Len(audit_log') = Len(audit_log) + 1
            /\ Matches(audit_log'[Len(audit_log')])
       ELSE audit_log' = audit_log

Affirmative == {"y", "Y", "yes", "YES", "Yes"}

\* C25: check_gate returns allowed exactly when the deciding action is allow
\* or notify, or it is approve, the run is interactive and the user answers
\* y or yes in any case; for approve in a run that is not interactive (the
\* caller says so, or stdin is no terminal) the result has action approve
\* and the reason that approval is required but the run is non-interactive.
C25_AllowedIffPermitted ==
    (gkpc = "idle" /\ gh.returned > 0) =>
        LET interactive == gcall.interactive /\ isatty IN
        /\ result.allowed <=>
              \/ gate_action \in {"allow", "notify"}
              \/ gate_action = "approve" /\ interactive /\ gh.response \in Affirmative
        /\ (gate_action = "approve" /\ ~interactive) =>
              /\ ~result.allowed
              /\ result.action = "approve"
              /\ result.reason = "Approval required but running non-interactively"

\* A glob matches a path: a star stands for a run of pieces without "/",
\* "**/" for any number of directories, a closing "**" for everything below.
RECURSIVE GlobMatch(_, _)
GlobMatch(path, pat) ==
    IF pat = <<>> THEN path = <<>>
    ELSE IF Len(pat) >= 3 /\ SubSeq(pat, 1, 3) = <<"*", "*", "/">>
    THEN \/ GlobMatch(path, SubSeq(pat, 4, Len(pat)))
         \/ \E i \in DOMAIN path :
               path[i] = "/" /\ GlobMatch(SubSeq(path, i + 1, Len(path)), SubSeq(pat, 4, Len(pat)))
    ELSE IF pat = <<"*", "*">> THEN TRUE
    ELSE IF Head(pat) = "*"
    THEN \/ GlobMatch(path, Tail(pat))
         \/ path # <<>> /\ Head(path) # "/" /\ GlobMatch(Tail(path), pat)
    ELSE path # <<>> /\ Head(path) = Head(pat) /\ GlobMatch(Tail(path), Tail(pat))

\* The path matches one of the configured globs; a glob without "/" is
\* matched against the file name.
MatchesSensitiveGlob(path) ==
    \E pat \in gate_config.sensitive_paths :
        \/ GlobMatch(path, pat)
        \/ (\A i \in DOMAIN pat : pat[i] # "/") /\ GlobMatch(basename(path), pat)

\* C26: with a context path that matches a configured sensitive-path glob,
\* check_gate decides with the action configured for sensitive_file whatever
\* the gate asked for; without a path, or with one that matches no glob, it
\* decides with the action of the gate asked for.
C26_SensitivePathOverrides ==
    (gkpc = "prompt" \/ gh.returned > 0) =>
        gate_action = IF gcall.path # NoPath /\ MatchesSensitiveGlob(gcall.path)
                      THEN get_gate(gate_config, "sensitive_file")
                      ELSE get_gate(gate_config, gcall.gate)

\* The same with fnmatch's notion of a match, on the path or its basename.
C26_FnmatchOverrides ==
    (gkpc = "prompt" \/ gh.returned > 0) =>
        gate_action = IF gcall.path # NoPath /\ is_sensitive_path(gate_config, gcall.path)
                      THEN get_gate(gate_config, "sensitive_file")
                      ELSE get_gate(gate_config, gcall.gate)


\* ------------------------------------------------------- claims, part U
\* C27: a record taken while the file held bytes C, whatever happened to
\* the file afterwards (more records, a deletion), restores to C: after the
\* restore of that entry the file holds C, byte for byte.
C27_RestoreGivesRecordedBytes ==
    (uh.lastRestore # 0 /\ entries[uh.lastRestore].bytes # Absent) =>
        ufile = entries[uh.lastRestore].bytes

\* C28: identical bytes are in the store as one blob under one hash, every
\* timeline entry recorded for those bytes carries that hash, and no bytes
\* are stored twice.
C28_OneBlobPerContent ==
    /\ \A b1, b2 \in backups : b1.bytes = b2.bytes => b1 = b2
    /\ \A i \in DOMAIN entries :
          entries[i].bytes # Absent =>
              \E b \in backups :
                  b.bytes = entries[i].bytes /\ b.name = entries[i].backup_hash
    /\ \A i, j \in DOMAIN entries :
          (entries[i].bytes = entries[j].bytes) =>
              entries[i].backup_hash = entries[j].backup_hash

\* The events so far are one burst, and the timers that are due have run.
InOneBurst == uh.oneBurst /\ uh.lastEvent # NoTime
BurstOver ==
    /\ uclock >= uh.lastEvent + debounce
    /\ \A timer \in timers : timer.at > uclock

PassingBranches ==
    {results[i].branch_id : i \in {j \in DOMAIN results : results[j].success}}

\* C30: in automatic selection mode, when one branch passes the promise
\* and the others fail it, the passing branch is the winner returned and the
\* items of its directory are in the main working directory.
C30_PassingBranchSelected ==
    (bpc = "done" /\ selection_mode = "auto"
        /\ Cardinality(PassingBranches) = 1) =>
        \A b \in PassingBranches :
            /\ best.winner = b
            /\ \A item \in ItemNames \ {".git"} :
                  AgentDir(b)[item] # Absent =>
                      working_dir[item] = AgentDir(b)[item]


\* C31: a completed branch's score is 100 if its promise passed, plus 10 for
\* each unused iteration, minus 0.5 per changed line, plus the coverage
\* percentage of the report (counted in halves, as score_result is).
C31_ScoreFormula ==
    \A i \in DOMAIN results :
        ~results[i].metrics.error =>
            results[i].score =
                (IF results[i].success THEN 200 ELSE 0)
                + 20 * (max_iterations_default - results[i].iterations_used)
                - results[i].metrics.lines_changed
                + 2 * results[i].metrics.coverage_pct

\* C32: the main working directory changes only in automatic mode and only
\* to the copy of the winner returned; in manual mode it is as it was and
\* all scored branches are returned.
C32_Inv ==
    /\ working_dir # OriginalDir =>
          /\ bpc = "done"
          /\ selection_mode = "auto"
          /\ working_dir = CopyBack(OriginalDir, AgentDir(best.winner))
    /\ (bpc = "done" /\ selection_mode = "manual") =>
          {results[i].branch_id : i \in DOMAIN results} = Branches
C32_MainDirOnlyByWinnerCopy ==
    [](C32_Inv) /\ [][working_dir' # working_dir =>
                        /\ selection_mode = "auto"
                        /\ \E i \in DOMAIN results :
                              /\ results[i].branch_id = best'.winner
                              /\ results[i].success
                        /\ working_dir' =
                              CopyBack(working_dir, branch_dirs[best'.winner])]_vars

\* Manual mode returned, the first of the results passed, the main
\* directory is as it was.
C32_Witness ==
    /\ bpc = "done"
    /\ selection_mode = "manual"
    /\ results[1].success
    /\ Len(results) = NumBranches
    /\ working_dir = OriginalDir


\* ------------------------------------------------------- claims, part W
\* pending, then running, then completed, failed or cancelled.
StatusRank(status) ==
    CASE status = "none" -> 0
      [] status = "pending" -> 1
      [] status = "running" -> 2
      [] OTHER -> 3

\* C33: over any sequence of register_subagent and update_subagent calls a
\* record's status only advances, and a completed or failed record keeps
\* its status.
C33_StatusOnlyAdvances ==
    [][\A id \in SubIds :
          /\ StatusRank(subagents'[id].status) >= StatusRank(subagents[id].status)
          /\ subagents[id].status \in {"completed", "failed"} =>
                subagents'[id].status = subagents[id].status]_vars

\* The iterations the subagents have executed.
RECURSIVE IterationsExecuted(_)
IterationsExecuted(ids) ==
    IF ids = {} THEN 0
    ELSE LET id == CHOOSE x \in ids : TRUE
         IN sub[id].iterations + IterationsExecuted(ids \ {id})

\* C40: once every subagent of the phase has returned,
\* total_subagent_iterations is the number of iterations they executed.
C40_NoLostIncrement ==
    (\A id \in SubIds : sub[id].pc = "done") =>
        total_subagent_iterations = IterationsExecuted(SubIds)


\* ------------------------------------------------------- claims, part V
\* C34: verify_promise returns True exactly when the command exits with
\* code 0: a command that can be started, ends within the timeout and exits
\* with 0; any other exit code, a timeout or an error gives False.
C34_TrueIffExitZero ==
    pv_pc = "returned" =>
        /\ pv_result \in {"True", "False"}
        /\ pv_result = "True" <=>
              /\ pv_command.spawns
              /\ pv_command.duration <= pv_timeout
              /\ pv_command.code = 0
        /\ pv_outcome.kind \in {"timeout", "error"} => pv_result = "False"

\* A command that would have exited with 0 ran past the timeout: False.
C34_Witness ==
    /\ pv_pc = "returned"
    /\ pv_outcome.kind = "timeout"
    /\ pv_command.code = 0
    /\ pv_result = "False"


\* ------------------------------------------------- claims, part G (more)
\* C36: when the project file names a level stricter than the user-global
\* one, every gate the user file did not set has the stricter level's
\* default action in the configuration load_project_config returns.
C36_StricterLevelDefaultsApplied ==
    (/\ cfpc = "done"
     /\ project_file.exists
     /\ project_file.level \in Levels
     /\ LevelIndex(project_file.level) > LevelIndex(global_config.level)) =>
        \A g \in GateNames :
            (~user_file.exists \/ user_file.gates[g] = Unset) =>
                config.gates[g] = DEFAULT_GATES[project_file.level][g]


\* ------------------------------------------------- claims, part K (more)
\* C35: a request with a sensitive path is never allowed when the same
\* request (same gate, same interactive mode, same answer) without
\* the path would be refused under the gate's own action.
C35_SensitivePathNeverLoosens ==
    (/\ gkpc = "idle"
     /\ gh.returned > 0
     /\ gcall.path # NoPath
     /\ is_sensitive_path(gate_config, gcall.path)
     /\ result.allowed) =>
        LET nominal == get_gate(gate_config, gcall.gate)
        IN \/ nominal \in {"allow", "notify"}
           \/ /\ nominal = "approve"
              /\ gcall.interactive
              /\ isatty
              /\ gh.response \in Affirmative


\* ------------------------------------------------------- claims, part C
\* C37: a restore that returns False leaves the working directory as it
\* was before the call, whatever the backend.
C37_FailedRestoreChangesNothing ==
    (ck_ret.op = "restore" /\ ck_ret.value = "False") => ck_dir = ck_before

\* C38: GitCheckpoint.create leaves the uncommitted changes of the working
\* tree in place, whether it returns an id or raises.
C38_CreateKeepsChanges ==
    (ck_backend = "git" /\ ck_ret.op = "create") => ck_dir = ck_before


\* ------------------------------------------------- claims, part P (more)
\* The servers that were in the pool when the request began are all still
\* in it.
HeldStillPooled ==
    \A sid \in ph.held : \E k \in Present : pool[k].id = sid

\* C39: a warm request that returns False leaves every server that was in
\* the pool when it began in the pool.
C39_FailedWarmEvictsNothing ==
    \A t \in PoolClients :
        (/\ ph.serial
         /\ ptask[t].op = "warm"
         /\ ptask[t].pc = "w_ret"
         /\ ~ptask[t].rv) => HeldStillPooled

====
